---------------------------- MODULE Spec2Model ----------------------------
(***************************************************************************)
(* A model of TinyC: the tokenizer (src/src/token.rs), the parser          *)
(* (src/src/parser.rs), the environment and value model (src/src/env.rs),  *)
(* the tree-walking evaluator (src/src/interpreter.rs) and the driver      *)
(* (src/src/main.rs).                                                      *)
(*                                                                         *)
(* The tokenizer and the parser are recursive operators that thread the    *)
(* lexer position and the parser record, as the Rust methods thread        *)
(* `&mut self`.  The evaluator is a machine with an explicit stack: each   *)
(* frame is a return point of a recursive call in interpreter.rs, so that  *)
(* the order of evaluation, non-termination and panics are behaviours of   *)
(* the model.                                                              *)
(***************************************************************************)
EXTENDS Integers, Sequences, FiniteSets, TLC

VARIABLES
    build,      \* "debug" | "release": the cargo profile (overflow checks)
    pc,         \* where the driver (or the entry point exercised) stands
    lexer,      \* a Lexer used directly: its input and self.chars
    tokens,     \* the tokens next_token has returned to a direct caller
    parser,     \* Parser { cur_token, peek_token, errors } and its lexer
    program,    \* Program.statements built so far
    envs,       \* the heap of Environment cells (Rc<RefCell<Environment>>)
    ctl,        \* evaluator: the node being evaluated or the value returned
    stack,      \* evaluator: the pending calls of eval_* (return points)
    result,     \* the value eval_program returned
    out,        \* what the process wrote to standard output
    fh          \* a FileHandle the file builtins are applied to

vars == <<build, pc, lexer, tokens, parser, program, envs, ctl,
          stack, result, out, fh>>

(***************************************************************************)
(* Bounds of the model.                                                    *)
(***************************************************************************)
\* i64 is modelled by a two's-complement integer of IntBits bits.
IntBits == 8
\* direct calls of next_token allowed after the input is exhausted
ExtraCalls == 2
\* longest text drawn from LexAlphabet
MaxSrcLen == 4
\* depth of the evaluator's stack at which the host stack overflows
MaxStack == 24

MaxInt == 2 ^ (IntBits - 1) - 1
MinInt == 0 - 2 ^ (IntBits - 1)

\* Option::None
None == [none |-> TRUE]

\* Val([r \in {e} |-> F(r)]) is `let r = e; F(r)`: the value of the function
\* at the one element of its domain
Val(f) == f[CHOOSE x \in DOMAIN f : TRUE]

\* Result<i64, _>
Ok(v) == [ok |-> TRUE, v |-> v]
Err == [ok |-> FALSE]

\* str::chars(): the characters of a string, each a one-character string
Chars(s) == [i \in 1..Len(s) |-> SubSeq(s, i, i)]
\* Peekable::peek() at the end of the input
NoChar == ""

(***************************************************************************)
(* token.rs                                                                *)
(***************************************************************************)
Tok(k) == [k |-> k]
TokS(k, s) == [k |-> k, s |-> s]
TokInteger(i) == [k |-> "Integer", i |-> i]
EOF == Tok("EOF")
\* not a Token: next_token did not return, `unwrap` panicked (token.rs:156)
LexPanic == Tok("panic")

Whitespace == {" ", "\t", "\n", "\r", "\f"}
Digits == {"0", "1", "2", "3", "4", "5", "6", "7", "8", "9"}
DigitVal(c) ==
    CASE c = "0" -> 0 [] c = "1" -> 1 [] c = "2" -> 2 [] c = "3" -> 3
      [] c = "4" -> 4 [] c = "5" -> 5 [] c = "6" -> 6 [] c = "7" -> 7
      [] c = "8" -> 8 [] c = "9" -> 9
Lower == {"a", "b", "c", "d", "e", "f", "g", "h", "i", "j", "k", "l", "m",
          "n", "o", "p", "q", "r", "s", "t", "u", "v", "w", "x", "y", "z"}
Upper == {"A", "B", "C", "D", "E", "F", "G", "H", "I", "J", "K", "L", "M",
          "N", "O", "P", "Q", "R", "S", "T", "U", "V", "W", "X", "Y", "Z"}
IsWhitespace(c) == c \in Whitespace
IsAsciiDigit(c) == c \in Digits
IsAsciiAlphabetic(c) == c \in Lower \cup Upper
IsAsciiAlphanumeric(c) == IsAsciiAlphabetic(c) \/ IsAsciiDigit(c)

\* self.chars.peek(): the next character, or NoChar
Peek(inp, pos) == IF pos < Len(inp) THEN inp[pos + 1] ELSE NoChar

RECURSIVE SkipWhitespace(_, _)
SkipWhitespace(inp, pos) ==
    IF pos < Len(inp) /\ IsWhitespace(inp[pos + 1])
    THEN SkipWhitespace(inp, pos + 1)
    ELSE pos

\* a comment loop that consumes nothing, which token.rs:128-133 is not
CommentKept(inp, pos) == pos

\* the comment loop of the '/' arm: consume up to, not including, '\n'
RECURSIVE SkipComment(_, _)
SkipComment(inp, pos) ==
    IF pos < Len(inp) /\ inp[pos + 1] # "\n"
    THEN SkipComment(inp, pos + 1)
    ELSE pos

\* the loop of the '"' arm: [s |-> str_val, pos |-> position at the closing
\* quote or at the end of the input]
RECURSIVE LexString(_, _, _)
LexString(inp, pos, str) ==
    IF pos >= Len(inp) \/ inp[pos + 1] = "\""
    THEN [s |-> str, pos |-> pos]
    ELSE LET c == inp[pos + 1]
             p1 == pos + 1
         IN  IF c = "\\"
             THEN IF p1 < Len(inp)
                  THEN LET nn == inp[p1 + 1]
                       IN  CASE nn = "n" -> LexString(inp, p1 + 1, str \o "\n")
                             [] nn = "r" -> LexString(inp, p1 + 1, str \o "\r")
                             [] nn = "t" -> LexString(inp, p1 + 1, str \o "\t")
                             [] nn = "\"" -> LexString(inp, p1 + 1, str \o "\"")
                             [] nn = "\\" -> LexString(inp, p1 + 1, str \o "\\")
                             [] OTHER -> LexString(inp, p1, str \o "\\")
                  ELSE LexString(inp, p1, str \o "\\")
             ELSE LexString(inp, p1, str \o c)

\* the loop of the digit arm: [s |-> num_str, pos]
RECURSIVE LexDigits(_, _, _)
LexDigits(inp, pos, str) ==
    IF pos < Len(inp) /\ IsAsciiDigit(inp[pos + 1])
    THEN LexDigits(inp, pos + 1, str \o inp[pos + 1])
    ELSE [s |-> str, pos |-> pos]

\* num_str.parse::<i64>() of a run of digits: Ok(value), or Err when the
\* value does not fit
RECURSIVE ParseI64From(_, _, _)
ParseI64From(digits, i, acc) ==
    IF i > Len(digits) THEN Ok(acc)
    ELSE LET v == acc * 10 + DigitVal(digits[i])
         IN  IF v > MaxInt THEN Err ELSE ParseI64From(digits, i + 1, v)
ParseI64(str) == ParseI64From(Chars(str), 1, 0)

\* the loop of the identifier arm: [s |-> ident, pos]
RECURSIVE LexIdent(_, _, _)
LexIdent(inp, pos, str) ==
    IF pos < Len(inp)
       /\ (IsAsciiAlphanumeric(inp[pos + 1]) \/ inp[pos + 1] = "_")
    THEN LexIdent(inp, pos + 1, str \o inp[pos + 1])
    ELSE [s |-> str, pos |-> pos]

Keyword(ident) ==
    CASE ident = "int" -> Tok("Int")
      [] ident = "return" -> Tok("Return")
      [] ident = "if" -> Tok("If")
      [] ident = "else" -> Tok("Else")
      [] ident = "while" -> Tok("While")
      [] OTHER -> TokS("Identifier", ident)

Punct(c) ==
    CASE c = "+" -> Tok("Plus") [] c = "-" -> Tok("Minus")
      [] c = "*" -> Tok("Asterisk") [] c = "<" -> Tok("LessThan")
      [] c = ">" -> Tok("GreaterThan") [] c = "(" -> Tok("LParen")
      [] c = ")" -> Tok("RParen") [] c = "{" -> Tok("LBrace")
      [] c = "}" -> Tok("RBrace") [] c = ";" -> Tok("Semicolon")
      [] c = "," -> Tok("Comma")
PunctChars == {"+", "-", "*", "<", ">", "(", ")", "{", "}", ";", ","}

\* Lexer::next_token on input inp with pos characters consumed:
\* [tok |-> the token returned, pos |-> the characters consumed after]
RECURSIVE NextToken(_, _)
NextToken(inp, pos0) ==
    LET pos == SkipWhitespace(inp, pos0)
    IN  IF pos >= Len(inp) THEN [tok |-> EOF, pos |-> pos]
        ELSE
        LET c == inp[pos + 1]
            p == pos + 1
        IN  CASE c = "=" ->
                   IF Peek(inp, p) = "=" THEN [tok |-> Tok("Equal"), pos |-> p + 1]
                   ELSE [tok |-> Tok("Assign"), pos |-> p]
              [] c = "\"" ->
                   LET r == LexString(inp, p, "")
                   IN  IF Peek(inp, r.pos) = "\""
                       THEN [tok |-> TokS("String", r.s), pos |-> r.pos + 1]
                       ELSE [tok |-> TokS("Illegal", "Unterminated string"),
                             pos |-> r.pos]
              [] c = "!" ->
                   IF Peek(inp, p) = "=" THEN [tok |-> Tok("NotEqual"), pos |-> p + 1]
                   ELSE [tok |-> TokS("Illegal", c), pos |-> p]
              [] c = "/" ->
                   IF Peek(inp, p) = "/"
                   THEN NextToken(inp, SkipComment(inp, p))
                   ELSE [tok |-> Tok("Slash"), pos |-> p]
              [] c \in PunctChars -> [tok |-> Punct(c), pos |-> p]
              [] IsAsciiDigit(c) ->
                   LET r == LexDigits(inp, p, c)
                       n == ParseI64(r.s)
                   IN  IF n.ok THEN [tok |-> TokInteger(n.v), pos |-> r.pos]
                       ELSE [tok |-> LexPanic, pos |-> r.pos]
              [] IsAsciiAlphabetic(c) \/ c = "_" ->
                   LET r == LexIdent(inp, p, c)
                   IN  [tok |-> Keyword(r.s), pos |-> r.pos]
              [] OTHER -> [tok |-> TokS("Illegal", c), pos |-> p]

\* Lexer::new
LexerNew(src) == [input |-> Chars(src), chars |-> 0]
\* next_token of a lexer that starts over once the input is exhausted
NextTokenRewinding(lx) ==
    LET r == NextToken(lx.input, lx.chars)
    IN  [tok |-> r.tok,
         lexer |-> [lx EXCEPT !.chars = IF r.tok = EOF THEN 0 ELSE r.pos]]
\* next_token as a method: [tok, lexer].  After a panic nothing runs; the
\* lexer is left exhausted.
LexerNextToken(lx) ==
    LET r == NextToken(lx.input, lx.chars)
    IN  [tok |-> r.tok,
         lexer |-> [lx EXCEPT !.chars = IF r.tok = LexPanic
                                         THEN Len(lx.input) ELSE r.pos]]

(***************************************************************************)
(* ast.rs                                                                  *)
(***************************************************************************)
Let(name, value) == [k |-> "Let", name |-> name, value |-> value]
Return(value) == [k |-> "Return", value |-> value]
ExpressionStmt(value) == [k |-> "Expression", value |-> value]
Block(stmts) == [k |-> "Block", stmts |-> stmts]
If(c, t, e) ==
    [k |-> "If", condition |-> c, consequence |-> t, alternative |-> e]
While(c, b) == [k |-> "While", condition |-> c, body |-> b]
Function(name, params, body) ==
    [k |-> "Function", name |-> name, params |-> params, body |-> body]

Identifier(s) == [k |-> "Identifier", s |-> s]
IntegerLit(i) == [k |-> "Integer", i |-> i]
StringLit(s) == [k |-> "String", s |-> s]
BooleanLit(b) == [k |-> "Boolean", b |-> b]
Prefix(op, right) == [k |-> "Prefix", operator |-> op, right |-> right]
Infix(left, op, right) ==
    [k |-> "Infix", left |-> left, operator |-> op, right |-> right]
Call(f, args) == [k |-> "Call", function |-> f, arguments |-> args]

(***************************************************************************)
(* parser.rs                                                               *)
(***************************************************************************)
\* enum Precedence, in declaration order (derive(PartialOrd))
Lowest == 0
Equals == 1
LessGreater == 2
Sum == 3
Product == 4
PrefixPrec == 5
CallPrec == 6

BinaryOps == {"Plus", "Minus", "Slash", "Asterisk", "Equal", "NotEqual",
              "LessThan", "GreaterThan"}

token_precedence(token) ==
    CASE token.k \in {"Equal", "NotEqual"} -> Equals
      [] token.k \in {"LessThan", "GreaterThan"} -> LessGreater
      [] token.k \in {"Plus", "Minus"} -> Sum
      [] token.k \in {"Asterisk", "Slash"} -> Product
      [] token.k = "LParen" -> CallPrec
      [] OTHER -> Lowest

\* The tokens the calls of next_token on a lexer return, up to and including
\* the first EOF (or the panic).  What the lexer returns does not depend on
\* its caller, so the parser's `lexer` field is modelled by this stream and
\* the number of tokens taken from it; past its end next_token returns EOF.
RECURSIVE TokenStream(_, _)
TokenStream(inp, pos) ==
    Val([r \in {NextToken(inp, pos)} |->
      IF r.tok = EOF \/ r.tok = LexPanic THEN <<r.tok>>
      ELSE <<r.tok>> \o TokenStream(inp, r.pos)])

\* self.lexer.next_token() in the parser: [tok, lexer]
TakeToken(lx) ==
    [tok |-> IF lx.taken < Len(lx.stream) THEN lx.stream[lx.taken + 1] ELSE EOF,
     lexer |-> [lx EXCEPT !.taken = IF @ < Len(lx.stream) THEN @ + 1 ELSE @]]

\* Parser::next_token; a panic of the lexer is recorded, it ends the process
ParserNextToken(p) ==
    Val([r \in {TakeToken(p.lexer)} |->
      [p EXCEPT !.cur_token = p.peek_token,
                !.peek_token = IF r.tok = LexPanic THEN EOF ELSE r.tok,
                !.lexer = r.lexer,
                !.panicked = p.panicked \/ r.tok = LexPanic]])

\* Parser::new
ParserNew(lx) ==
    Val([l0 \in {[stream |-> TokenStream(lx.input, lx.chars), taken |-> 0]} |->
      Val([r1 \in {TakeToken(l0)} |->
        Val([r2 \in {TakeToken(r1.lexer)} |->
          [lexer |-> r2.lexer,
           cur_token |-> IF r1.tok = LexPanic THEN EOF ELSE r1.tok,
           peek_token |-> IF r1.tok = LexPanic \/ r2.tok = LexPanic
                          THEN EOF ELSE r2.tok,
           errors |-> <<>>,
           panicked |-> r1.tok = LexPanic \/ r2.tok = LexPanic]])])])

\* fmt::Debug of a str: quoted, with `"`, `\` and the control characters
\* escaped
EscapeDebugChar(c) ==
    CASE c = "\"" -> "\\\"" [] c = "\\" -> "\\\\" [] c = "\n" -> "\\n"
      [] c = "\r" -> "\\r" [] c = "\t" -> "\\t" [] OTHER -> c
RECURSIVE EscapeDebugFrom(_, _)
EscapeDebugFrom(cs, i) ==
    IF i > Len(cs) THEN ""
    ELSE EscapeDebugChar(cs[i]) \o EscapeDebugFrom(cs, i + 1)
DebugStr(s) == "\"" \o EscapeDebugFrom(Chars(s), 1) \o "\""

\* fmt::Debug of a Token (derive(Debug))
DebugToken(t) ==
    CASE t.k \in {"Identifier", "String", "Illegal"} ->
           t.k \o "(" \o DebugStr(t.s) \o ")"
      [] t.k = "Integer" -> "Integer(" \o ToString(t.i) \o ")"
      [] OTHER -> t.k

\* Parser::expect_peek: [ok, p]
ExpectPeek(p, expected) ==
    IF p.peek_token = expected
    THEN [ok |-> TRUE, p |-> ParserNextToken(p)]
    ELSE [ok |-> FALSE,
          p |-> [p EXCEPT !.errors =
                   Append(@, "Expected " \o DebugToken(expected) \o ", got "
                                \o DebugToken(p.peek_token))]]

\* the result of a parse function, Some(node) or None, and the parser afterwards
PS(node, p) == [ok |-> TRUE, node |-> node, p |-> p]
PN(p) == [ok |-> FALSE, node |-> None, p |-> p]

\* if self.peek_token == Token::Semicolon { self.next_token(); }
SkipSemicolon(p) ==
    IF p.peek_token = Tok("Semicolon") THEN ParserNextToken(p) ELSE p

RECURSIVE ParseStatement(_)
RECURSIVE ParseBlockLoop(_, _)
RECURSIVE ParseExpression(_, _)
RECURSIVE ParseExpressionLoop(_, _, _)
RECURSIVE ParseCallArguments(_, _)

\* Parser::parse_call_expression, the `while self.peek_token == Comma` loop:
\* the arguments (or None) and the parser afterwards
ParseCallArguments(p, args) ==
    IF p.peek_token = Tok("Comma")
    THEN Val([r \in {ParseExpression(ParserNextToken(ParserNextToken(p)), Lowest)} |-> IF ~r.ok THEN PN(r.p)
                         ELSE ParseCallArguments(r.p, Append(args, r.node))])
    ELSE PS(args, p)

\* Parser::parse_call_expression; cur_token is LParen
ParseCallExpression(p, function) ==
    IF p.peek_token = Tok("RParen")
    THEN PS(Call(function, <<>>), ParserNextToken(p))
    ELSE Val([first \in {ParseExpression(ParserNextToken(p), Lowest)} |->
           IF ~first.ok THEN PN(first.p)
           ELSE Val([rest \in {ParseCallArguments(first.p, <<first.node>>)} |->
                  IF ~rest.ok THEN PN(rest.p)
                  ELSE Val([e \in {ExpectPeek(rest.p, Tok("RParen"))} |->
                         IF ~e.ok THEN PN(e.p)
                         ELSE PS(Call(function, rest.node), e.p)])])])

\* Parser::parse_expression, the prefix position (`let mut left = match`)
ParsePrefix(p) ==
    CASE p.cur_token.k = "Identifier" -> PS(Identifier(p.cur_token.s), p)
      [] p.cur_token.k = "Integer" -> PS(IntegerLit(p.cur_token.i), p)
      [] p.cur_token.k = "String" -> PS(StringLit(p.cur_token.s), p)
      [] p.cur_token.k = "Minus" ->
           Val([r \in {ParseExpression(ParserNextToken(p), PrefixPrec)} |->
             IF ~r.ok THEN PN(r.p)
             ELSE PS(Prefix(p.cur_token, r.node), r.p)])
      [] p.cur_token.k = "LParen" ->
           Val([r \in {ParseExpression(ParserNextToken(p), Lowest)} |->
             IF ~r.ok THEN PN(r.p)
             ELSE Val([e \in {ExpectPeek(r.p, Tok("RParen"))} |->
                    IF ~e.ok THEN PN(e.p) ELSE PS(r.node, e.p)])])
      [] OTHER -> PN(p)

\* `<=` where parser.rs:306 has `<`: operators of equal precedence would
\* group to the right
BindsAtLeast(precedence, token) == precedence <= token_precedence(token)

\* `precedence < token_precedence(&self.peek_token)`
BindsTighter(precedence, token) == precedence < token_precedence(token)

\* Parser::parse_expression, the infix/call loop
ParseExpressionLoop(p, precedence, left) ==
    IF p.peek_token # Tok("Semicolon") /\ BindsTighter(precedence, p.peek_token)
    THEN CASE p.peek_token.k = "LParen" ->
                Val([r \in {ParseCallExpression(ParserNextToken(p), left)} |->
                  IF ~r.ok THEN PN(r.p)
                  ELSE ParseExpressionLoop(r.p, precedence, r.node)])
           [] p.peek_token.k \in BinaryOps ->
                Val([p1 \in {ParserNextToken(p)} |->
                  Val([r \in {ParseExpression(ParserNextToken(p1),
                                       token_precedence(p1.cur_token))} |->
                         IF ~r.ok THEN PN(r.p)
                         ELSE ParseExpressionLoop(
                                  r.p, precedence,
                                  Infix(left, p1.cur_token, r.node))])])
           [] OTHER -> PS(left, p)
    ELSE PS(left, p)

\* Parser::parse_expression
ParseExpression(p, precedence) ==
    Val([l \in {ParsePrefix(p)} |->
      IF ~l.ok THEN l ELSE ParseExpressionLoop(l.p, precedence, l.node)])

\* Parser::parse_expression_statement
ParseExpressionStatement(p) ==
    Val([r \in {ParseExpression(p, Lowest)} |->
      IF ~r.ok THEN r ELSE PS(ExpressionStmt(r.node), SkipSemicolon(r.p))])

\* Parser::parse_return_statement
ParseReturnStatement(p) ==
    Val([r \in {ParseExpression(ParserNextToken(p), Lowest)} |->
      IF ~r.ok THEN r ELSE PS(Return(r.node), SkipSemicolon(r.p))])

\* Parser::parse_block_statement, the statement loop: the statements and
\* the parser afterwards
ParseBlockLoop(p, statements) ==
    IF p.cur_token # Tok("RBrace") /\ p.cur_token # EOF
    THEN Val([r \in {ParseStatement(p)} |->
           ParseBlockLoop(ParserNextToken(r.p),
                          IF r.ok THEN Append(statements, r.node)
                          ELSE statements)])
    ELSE PS(statements, p)

\* Parser::parse_block_statement; cur_token is LBrace.  The node is the
\* Vec<Statement>.
ParseBlockStatement(p) == ParseBlockLoop(ParserNextToken(p), <<>>)

\* Parser::parse_function_parameters, the `loop`: the identifiers (or None)
\* and the parser afterwards
RECURSIVE ParseParametersLoop(_, _)
ParseParametersLoop(p, identifiers) ==
    IF p.cur_token.k # "Int" THEN PN(p)
    ELSE Val([p1 \in {ParserNextToken(p)} |->
           IF p1.cur_token.k # "Identifier" THEN PN(p1)
           ELSE IF p1.peek_token = Tok("Comma")
           THEN ParseParametersLoop(ParserNextToken(ParserNextToken(p1)),
                                    Append(identifiers, p1.cur_token.s))
           ELSE PS(Append(identifiers, p1.cur_token.s), p1)])

\* Parser::parse_function_parameters; cur_token is LParen
ParseFunctionParameters(p) ==
    IF p.peek_token = Tok("RParen") THEN PS(<<>>, ParserNextToken(p))
    ELSE Val([r \in {ParseParametersLoop(ParserNextToken(p), <<>>)} |->
           IF ~r.ok THEN r
           ELSE Val([e \in {ExpectPeek(r.p, Tok("RParen"))} |->
                  IF ~e.ok THEN PN(e.p) ELSE PS(r.node, e.p)])])

\* the statement a function body is wrapped in (parser.rs:137)
FunctionBody(stmts) == Block(stmts)

\* Parser::parse_function_statement; cur_token is the name, peek is LParen
ParseFunctionStatement(p, name) ==
    Val([params \in {ParseFunctionParameters(ParserNextToken(p))} |->
      IF ~params.ok THEN params
      ELSE Val([e \in {ExpectPeek(params.p, Tok("LBrace"))} |->
             IF ~e.ok THEN PN(e.p)
             ELSE Val([body \in {ParseBlockStatement(e.p)} |->
                    PS(Function(name, params.node, FunctionBody(body.node)),
                       body.p)])])])

\* Parser::parse_let_statement; cur_token is Int
ParseLetStatement(p) ==
    Val([p1 \in {ParserNextToken(p)} |->
      IF p1.cur_token.k # "Identifier" THEN PN(p1)
      ELSE IF p1.peek_token = Tok("LParen")
      THEN ParseFunctionStatement(p1, p1.cur_token.s)
      ELSE Val([e \in {ExpectPeek(p1, Tok("Assign"))} |->
             IF ~e.ok THEN PN(e.p)
             ELSE Val([r \in {ParseExpression(ParserNextToken(e.p), Lowest)} |->
                    IF ~r.ok THEN r
                    ELSE PS(Let(p1.cur_token.s, r.node), SkipSemicolon(r.p))])])])

\* `( condition ) {` of parse_if_statement and parse_while_statement: the
\* condition (or None) and the parser, cur_token at LBrace
ParseCondition(p) ==
    Val([e1 \in {ExpectPeek(p, Tok("LParen"))} |->
      IF ~e1.ok THEN PN(e1.p)
      ELSE Val([c \in {ParseExpression(ParserNextToken(e1.p), Lowest)} |->
             IF ~c.ok THEN c
             ELSE Val([e2 \in {ExpectPeek(c.p, Tok("RParen"))} |->
                    IF ~e2.ok THEN PN(e2.p)
                    ELSE Val([e3 \in {ExpectPeek(e2.p, Tok("LBrace"))} |->
                           IF ~e3.ok THEN PN(e3.p) ELSE PS(c.node, e3.p)])])])])

\* a branch of one statement left as that statement, which parser.rs:232 and
\* 241 do not do
Unwrapped(stmts) == IF Len(stmts) = 1 THEN stmts[1] ELSE Block(stmts)

\* the statement an if branch is wrapped in (parser.rs:232, 241)
Branch(stmts) == Block(stmts)
\* the statement a loop body is wrapped in (parser.rs:266)
LoopBody(stmts) == Block(stmts)

\* Parser::parse_if_statement
ParseIfStatement(p) ==
    Val([c \in {ParseCondition(p)} |->
      IF ~c.ok THEN c
      ELSE Val([cons \in {ParseBlockStatement(c.p)} |->
             IF cons.p.peek_token = Tok("Else")
             THEN Val([e \in {ExpectPeek(ParserNextToken(cons.p), Tok("LBrace"))} |->
                         IF ~e.ok THEN PN(e.p)
                         ELSE Val([alt \in {ParseBlockStatement(e.p)} |->
                                PS(If(c.node, Branch(cons.node),
                                      Branch(alt.node)), alt.p)])])
             ELSE PS(If(c.node, Branch(cons.node), None), cons.p)])])

\* Parser::parse_while_statement
ParseWhileStatement(p) ==
    Val([c \in {ParseCondition(p)} |->
      IF ~c.ok THEN c
      ELSE Val([body \in {ParseBlockStatement(c.p)} |->
             PS(While(c.node, LoopBody(body.node)), body.p)])])

\* Parser::parse_statement
ParseStatement(p) ==
    CASE p.cur_token.k = "Int" ->
           IF p.peek_token.k = "Identifier" THEN ParseLetStatement(p)
           ELSE PN(p)
      [] p.cur_token.k = "Return" -> ParseReturnStatement(p)
      [] p.cur_token.k = "LBrace" ->
           Val([b \in {ParseBlockStatement(p)} |-> PS(Block(b.node), b.p)])
      [] p.cur_token.k = "If" -> ParseIfStatement(p)
      [] p.cur_token.k = "While" -> ParseWhileStatement(p)
      [] OTHER -> ParseExpressionStatement(p)

\* an iteration of parse_program that leaves out the next_token at its end
IterationWithoutNextToken(p, statements) ==
    Val([r \in {ParseStatement(p)} |->
      [statements |-> IF r.ok THEN Append(statements, r.node)
                      ELSE statements,
       p |-> r.p]])

\* one iteration of the loop of Parser::parse_program: the statements and
\* the parser after `parse_statement` and `next_token`
ParseProgramIteration(p, statements) ==
    Val([r \in {ParseStatement(p)} |->
      [statements |-> IF r.ok THEN Append(statements, r.node)
                      ELSE statements,
       p |-> ParserNextToken(r.p)]])

\* Parser::parse_program run to its end: [statements, p]
RECURSIVE ParseProgramFrom(_, _)
ParseProgramFrom(p, statements) ==
    IF p.cur_token # EOF
    THEN Val([r \in {ParseProgramIteration(p, statements)} |->
           ParseProgramFrom(r.p, r.statements)])
    ELSE [statements |-> statements, p |-> p]
ParseProgram(src) == ParseProgramFrom(ParserNew(LexerNew(src)), <<>>)

(***************************************************************************)
(* env.rs                                                                  *)
(***************************************************************************)
Integer(i) == [t |-> "Integer", i |-> i]
String(s) == [t |-> "String", s |-> s]
Boolean(b) == [t |-> "Boolean", b |-> b]
\* Function(params, body, env): env is the index of the captured cell
FunctionObj(params, body, env) ==
    [t |-> "Function", params |-> params, body |-> body, env |-> env]
\* Builtin(fn): the function pointer is modelled by the builtin's name
Builtin(name) == [t |-> "Builtin", name |-> name]
File(h) == [t |-> "File", h |-> h]
Null == [t |-> "Null"]
ReturnValue(v) == [t |-> "ReturnValue", val |-> v]
Error(msg) == [t |-> "Error", msg |-> msg]
\* not an Object: the evaluation panicked instead of returning one
Panic(msg) == [t |-> "panic", msg |-> msg]

\* an equality that holds of every value and itself, which env.rs:36-37
\* does not
StructuralEq(l, r) == l = r

\* impl PartialEq for Object
RECURSIVE ObjectEq(_, _)
ObjectEq(l, r) ==
    CASE l.t = "Integer" /\ r.t = "Integer" -> l.i = r.i
      [] l.t = "String" /\ r.t = "String" -> l.s = r.s
      [] l.t = "Boolean" /\ r.t = "Boolean" -> l.b = r.b
      [] l.t = "Function" /\ r.t = "Function" ->
           l.params = r.params /\ l.body = r.body
      [] l.t = "Builtin" /\ r.t = "Builtin" -> FALSE
      [] l.t = "File" /\ r.t = "File" -> FALSE
      [] l.t = "Null" /\ r.t = "Null" -> TRUE
      [] l.t = "ReturnValue" /\ r.t = "ReturnValue" -> ObjectEq(l.val, r.val)
      [] l.t = "Error" /\ r.t = "Error" -> l.msg = r.msg
      [] OTHER -> FALSE

\* Vec<String>::join(", ")
RECURSIVE JoinFrom(_, _)
JoinFrom(strs, i) ==
    IF i > Len(strs) THEN ""
    ELSE IF i = Len(strs) THEN strs[i]
    ELSE strs[i] \o ", " \o JoinFrom(strs, i + 1)

\* Object::inspect
RECURSIVE Inspect(_)
Inspect(obj) ==
    CASE obj.t = "Integer" -> ToString(obj.i)
      [] obj.t = "String" -> obj.s
      [] obj.t = "Boolean" -> IF obj.b THEN "true" ELSE "false"
      [] obj.t = "Function" -> "fn(" \o JoinFrom(obj.params, 1) \o ") { ... }"
      [] obj.t = "Builtin" -> "builtin function"
      [] obj.t = "File" -> "file"
      [] obj.t = "Null" -> "null"
      [] obj.t = "ReturnValue" -> Inspect(obj.val)
      [] obj.t = "Error" -> "ERROR: " \o obj.msg

\* fmt::Debug of an Object (derive(Debug)).  The text of a Function, a
\* Builtin and a File goes on with the AST, the hash map in its iteration
\* order and addresses; it is cut after the variant's name.
RECURSIVE DebugObject(_)
DebugObject(obj) ==
    CASE obj.t = "Integer" -> "Integer(" \o ToString(obj.i) \o ")"
      [] obj.t = "String" -> "String(" \o DebugStr(obj.s) \o ")"
      [] obj.t = "Boolean" ->
           "Boolean(" \o (IF obj.b THEN "true" ELSE "false") \o ")"
      [] obj.t = "Null" -> "Null"
      [] obj.t = "ReturnValue" -> "ReturnValue(" \o DebugObject(obj.val) \o ")"
      [] obj.t = "Error" -> "Error(" \o DebugStr(obj.msg) \o ")"
      [] OTHER -> obj.t \o "(..)"

\* HashMap::new()
EmptyStore == [n \in {} |-> Null]
\* HashMap::insert
Insert(store, name, val) ==
    [n \in (DOMAIN store) \cup {name} |-> IF n = name THEN val ELSE store[n]]

\* the absent outer link (Option::None)
NoEnv == 0
\* Environment::new
EnvironmentNew == [store |-> EmptyStore, outer |-> NoEnv]
\* Environment::new_enclosed
NewEnclosed(outer) == [store |-> EmptyStore, outer |-> outer]

\* Environment::get on cell e of heap h: [ok, v]
RECURSIVE EnvGet(_, _, _)
EnvGet(h, e, name) ==
    IF name \in DOMAIN h[e].store THEN [ok |-> TRUE, v |-> h[e].store[name]]
    ELSE IF h[e].outer # NoEnv THEN EnvGet(h, h[e].outer, name)
    ELSE [ok |-> FALSE, v |-> Null]

\* assignment to the innermost scope that binds the name, which
\* env.rs:94-97 does not do
RECURSIVE SetWhereBound(_, _, _)
SetWhereBound(h, e, name) ==
    IF name \notin DOMAIN h[e].store /\ h[e].outer # NoEnv
       /\ EnvGet(h, h[e].outer, name).ok
    THEN SetWhereBound(h, h[e].outer, name)
    ELSE e

\* the cell an Environment::set on cell e writes to
SetTarget(h, e, name) == e

\* Environment::set on cell e of heap h: the heap afterwards
EnvSet(h, e, name, val) ==
    LET c == SetTarget(h, e, name)
    IN  [h EXCEPT ![c].store = Insert(@, name, val)]

(***************************************************************************)
(* interpreter.rs                                                          *)
(***************************************************************************)
\* a truthiness with the empty String false, which interpreter.rs:236
\* does not have
EmptyStringIsFalse(obj) ==
    CASE obj.t = "Null" -> FALSE
      [] obj.t = "Boolean" -> obj.b
      [] obj.t = "Integer" -> obj.i # 0
      [] obj.t = "String" -> obj.s # ""
      [] OTHER -> TRUE

\* Interpreter::is_truthy
is_truthy(obj) ==
    CASE obj.t = "Null" -> FALSE
      [] obj.t = "Boolean" -> obj.b
      [] obj.t = "Integer" -> obj.i # 0
      [] OTHER -> TRUE

\* Interpreter::is_error
is_error(obj) == obj.t = "Error"

\* the two's-complement value an out-of-range result wraps to
Wrap(x) == ((x - MinInt) % (2 ^ IntBits)) + MinInt

\* the Object of an i64 `+`, `-`, `*` or negation whose exact value is x:
\* overflow panics with overflow checks (debug) and wraps without (release)
Arith(x, b, what) ==
    IF MinInt <= x /\ x <= MaxInt THEN Integer(x)
    ELSE IF b = "debug" THEN Panic("attempt to " \o what \o " with overflow")
    ELSE Integer(Wrap(x))

\* i64 division, truncating toward zero (r # 0)
TruncDiv(l, r) ==
    LET al == IF l < 0 THEN 0 - l ELSE l
        ar == IF r < 0 THEN 0 - r ELSE r
        q == al \div ar
    IN  IF (l < 0) = (r < 0) THEN q ELSE 0 - q

\* `l / r` on i64 (interpreter.rs:211): division by zero and MIN / -1 panic
\* in every build
Divide(l, r) ==
    IF r = 0 THEN Panic("attempt to divide by zero")
    ELSE IF l = MinInt /\ r = 0 - 1
    THEN Panic("attempt to divide with overflow")
    ELSE Integer(TruncDiv(l, r))

\* Interpreter::eval_prefix_expression
eval_prefix_expression(operator, right, b) ==
    IF operator.k = "Minus"
    THEN IF right.t = "Integer" THEN Arith(0 - right.i, b, "negate")
         ELSE Error("unknown operator: -" \o DebugObject(right))
    ELSE Error("unknown operator: " \o DebugToken(operator)
                 \o DebugObject(right))

\* Interpreter::eval_infix_expression
eval_infix_expression(operator, left, right, b) ==
    CASE left.t = "Integer" /\ right.t = "Integer" ->
           LET l == left.i
               r == right.i
           IN  CASE operator.k = "Plus" -> Arith(l + r, b, "add")
                 [] operator.k = "Minus" -> Arith(l - r, b, "subtract")
                 [] operator.k = "Asterisk" -> Arith(l * r, b, "multiply")
                 [] operator.k = "Slash" -> Divide(l, r)
                 [] operator.k = "LessThan" -> Boolean(l < r)
                 [] operator.k = "GreaterThan" -> Boolean(l > r)
                 [] operator.k = "Equal" -> Boolean(l = r)
                 [] operator.k = "NotEqual" -> Boolean(l # r)
                 [] OTHER -> Error("unknown operator: INTEGER "
                                     \o DebugToken(operator) \o " INTEGER")
      [] left.t = "Boolean" /\ right.t = "Boolean" ->
           CASE operator.k = "Equal" -> Boolean(left.b = right.b)
             [] operator.k = "NotEqual" -> Boolean(left.b # right.b)
             [] OTHER -> Error("unknown operator: BOOLEAN "
                                 \o DebugToken(operator) \o " BOOLEAN")
      [] OTHER ->
           CASE operator.k = "Equal" -> Boolean(ObjectEq(left, right))
             [] operator.k = "NotEqual" -> Boolean(~ObjectEq(left, right))
             [] OTHER -> Error("type mismatch: " \o DebugObject(left) \o " "
                                 \o DebugToken(operator) \o " "
                                 \o DebugObject(right))

(***************************************************************************)
(* stdlib.rs: the builtins the programs of the model call                  *)
(***************************************************************************)
BuiltinNames == {"puts", "putchar", "fopen", "fclose"}

\* the files of the host: File::open succeeds on these paths and on no
\* other, File::create on every path but the empty one
ExistingFiles == {"a"}
\* stdlib.rs:126-141: the Object fopen returns for a path and a mode; the
\* handle of a File is named by the path it opened
OpenFile(path, mode) ==
    IF (mode = "w" /\ path # "") \/ (mode # "w" /\ path \in ExistingFiles)
    THEN File(path)
    ELSE Error("fopen failed: No such file or directory (os error 2)")

\* the builtin's closure applied to args with standard output o:
\* [val |-> the Object returned, out |-> standard output afterwards]
CallBuiltin(name, args, o) ==
    CASE name = "puts" ->
           IF Len(args) # 1
           THEN [val |-> Error("puts expected 1 argument, got "
                                 \o ToString(Len(args))), out |-> o]
           ELSE [val |-> Null, out |-> o \o Inspect(args[1]) \o "\n"]
      [] name = "putchar" ->
           IF Len(args) # 1
           THEN [val |-> Error("putchar expected 1 argument"), out |-> o]
           ELSE LET s == Inspect(args[1])
                IN  [val |-> Null,
                     out |-> IF Len(s) > 0 THEN o \o SubSeq(s, 1, 1) ELSE o]
      [] name = "fopen" ->
           [val |-> IF Len(args) # 2
                    THEN Error("fopen expected 2 arguments, got "
                                 \o ToString(Len(args)))
                    ELSE IF args[1].t # "String"
                    THEN Error("fopen first argument must be a string path")
                    ELSE IF args[2].t # "String"
                    THEN Error("fopen second argument must be a string mode")
                    ELSE OpenFile(args[1].s, args[2].s),
            out |-> o]
      [] name = "fclose" -> [val |-> Null, out |-> o]

\* register_stdlib: the global cell with the builtins set
RECURSIVE RegisterAll(_, _)
RegisterAll(store, names) ==
    IF names = {} THEN store
    ELSE LET n == CHOOSE x \in names : TRUE
         IN  RegisterAll(Insert(store, n, Builtin(n)), names \ {n})
register_stdlib(env) == [env EXCEPT !.store = RegisterAll(@, BuiltinNames)]

\* main.rs:47-58: the bootstrapped global environment
Bootstrap ==
    LET e == register_stdlib(EnvironmentNew)
    IN  [e EXCEPT !.store =
           Insert(Insert(Insert(@, "null", Null), "true", Boolean(TRUE)),
                  "false", Boolean(FALSE))]

(***************************************************************************)
(* stdlib.rs: the file builtins.  A FileHandle is                          *)
(*   [file |-> [mode, bytes, pos], eof, error]                             *)
(* where file is the host's open file: the mode it was opened in, the      *)
(* bytes of the file and the position of the descriptor.  Each builtin is  *)
(* applied to its arguments, to the FileHandle h its File argument refers  *)
(* to and to what the host lets the system calls do; it gives              *)
(*   [val |-> the Object returned, fh |-> the FileHandle afterwards].      *)
(***************************************************************************)
NoHandle == [none |-> TRUE]
\* stdlib.rs:136-140
FileHandle(file) == [file |-> file, eof |-> FALSE, error |-> FALSE]

\* the byte of an ASCII character and the character of a byte
FileChars == {"\n", "%", "1", "a", "d", "s"}
Utf8(c) ==
    CASE c = "\n" -> 10 [] c = "%" -> 37 [] c = "1" -> 49
      [] c = "a" -> 97 [] c = "d" -> 100 [] c = "s" -> 115
AsChar(b) == CHOOSE c \in FileChars : Utf8(c) = b

\* the text of the io::Error of a failed call
OsError(f, reading) ==
    IF reading = (f.mode = "w") THEN "Bad file descriptor (os error 9)"
    ELSE "Input/output error (os error 5)"

\* File::read into a buffer of one byte; the host lets it succeed iff ok,
\* and never on a file opened by File::create
ReadByte(f, ok) ==
    IF ~ok \/ f.mode = "w" THEN [ok |-> FALSE, n |-> 0, file |-> f]
    ELSE IF f.pos >= Len(f.bytes) THEN [ok |-> TRUE, n |-> 0, file |-> f]
    ELSE [ok |-> TRUE, n |-> 1, buf |-> f.bytes[f.pos + 1],
          file |-> [f EXCEPT !.pos = @ + 1]]

\* the file after the bytes of s are written at its position
PutBytes(f, s) ==
    IF s = "" THEN f
    ELSE LET end == f.pos + Len(s)
             len == IF end > Len(f.bytes) THEN end ELSE Len(f.bytes)
         IN  [f EXCEPT !.pos = end,
                       !.bytes = [i \in 1..len |->
                          IF i > f.pos /\ i <= end
                          THEN Utf8(SubSeq(s, i - f.pos, i - f.pos))
                          ELSE IF i <= Len(f.bytes) THEN f.bytes[i] ELSE 0]]

\* write!(fh.file, "{}", s): write_all of the bytes of s; the host takes
\* luck bytes before it fails, and none on a file opened by File::open
WriteAll(f, s, luck) ==
    IF s = "" THEN [ok |-> TRUE, file |-> f]
    ELSE IF f.mode # "w" THEN [ok |-> FALSE, file |-> f]
    ELSE IF luck >= Len(s) THEN [ok |-> TRUE, file |-> PutBytes(f, s)]
    ELSE [ok |-> FALSE, file |-> PutBytes(f, SubSeq(s, 1, luck))]

\* File::seek(SeekFrom::Start(n) | Current(n) | End(n)); a position that is
\* negative or does not fit off_t is EINVAL
Seek(f, from, n, ok) ==
    LET target == CASE from = "Start" -> n
                    [] from = "Current" -> f.pos + n
                    [] from = "End" -> Len(f.bytes) + n
    IN  IF ~ok \/ target < 0 \/ target > MaxInt
        THEN [ok |-> FALSE, file |-> f]
        ELSE [ok |-> TRUE, file |-> [f EXCEPT !.pos = target]]

\* stdlib.rs:22-50: the loop of format_output from character i of fmt_str
RECURSIVE FormatFrom(_, _, _, _)
FormatFrom(fmt_str, i, fmt_args, arg_idx) ==
    IF i > Len(fmt_str) THEN ""
    ELSE IF SubSeq(fmt_str, i, i) # "%"
    THEN SubSeq(fmt_str, i, i) \o FormatFrom(fmt_str, i + 1, fmt_args, arg_idx)
    ELSE IF i = Len(fmt_str) THEN "%"
    ELSE IF SubSeq(fmt_str, i + 1, i + 1) \in {"s", "d"}
    THEN IF arg_idx < Len(fmt_args)
         THEN Inspect(fmt_args[arg_idx + 1])
                \o FormatFrom(fmt_str, i + 2, fmt_args, arg_idx + 1)
         ELSE "%" \o SubSeq(fmt_str, i + 1, i + 1)
                \o FormatFrom(fmt_str, i + 2, fmt_args, arg_idx)
    ELSE IF SubSeq(fmt_str, i + 1, i + 1) = "%"
    THEN "%" \o FormatFrom(fmt_str, i + 2, fmt_args, arg_idx)
    ELSE "%" \o FormatFrom(fmt_str, i + 1, fmt_args, arg_idx)

RECURSIVE InspectFrom(_, _)
InspectFrom(args, i) ==
    IF i > Len(args) THEN "" ELSE Inspect(args[i]) \o InspectFrom(args, i + 1)

\* format_output: the String of its Ok (it has no Err)
format_output(args) ==
    IF Len(args) = 0 THEN ""
    ELSE IF args[1].t # "String" THEN InspectFrom(args, 1)
    ELSE FormatFrom(args[1].s, 1, Tail(args), 0)

\* stdlib.rs:161-172, 190-201, 520-531: the write of fputs, fputc and putc
WriteOrFail(name, s, h, luck) ==
    LET w == WriteAll(h.file, s, luck)
    IN  IF w.ok THEN [val |-> Null, fh |-> [h EXCEPT !.file = w.file]]
        ELSE [val |-> Error(name \o " failed: " \o OsError(h.file, FALSE)),
              fh |-> [h EXCEPT !.file = w.file, !.error = TRUE]]

fputs(args, h, luck) ==
    IF Len(args) # 2
    THEN [val |-> Error("fputs expected 2 arguments"), fh |-> h]
    ELSE IF args[1].t # "String"
    THEN [val |-> Error("fputs first arg must be string"), fh |-> h]
    ELSE IF args[2].t # "File"
    THEN [val |-> Error("fputs second arg must be file"), fh |-> h]
    ELSE WriteOrFail("fputs", args[1].s, h, luck)

fputc(args, h, luck) ==
    IF Len(args) # 2
    THEN [val |-> Error("fputc expected 2 arguments"), fh |-> h]
    ELSE IF Inspect(args[1]) = "" THEN [val |-> Null, fh |-> h]
    ELSE IF args[2].t # "File"
    THEN [val |-> Error("fputc arg must be file"), fh |-> h]
    ELSE WriteOrFail("fputc", SubSeq(Inspect(args[1]), 1, 1), h, luck)

putc(args, h, luck) ==
    IF Len(args) # 2
    THEN [val |-> Error("putc expected 2 arguments"), fh |-> h]
    ELSE IF Inspect(args[1]) = "" THEN [val |-> Null, fh |-> h]
    ELSE IF args[2].t # "File"
    THEN [val |-> Error("putc arg must be file"), fh |-> h]
    ELSE WriteOrFail("putc", SubSeq(Inspect(args[1]), 1, 1), h, luck)

fprintf(args, h, luck) ==
    IF Len(args) < 2
    THEN [val |-> Error("fprintf expected at least file and fmt"), fh |-> h]
    ELSE IF args[1].t # "File"
    THEN [val |-> Error("fprintf first arg must be file"), fh |-> h]
    ELSE LET w == WriteAll(h.file, format_output(Tail(args)), luck)
         IN  IF w.ok THEN [val |-> Null, fh |-> [h EXCEPT !.file = w.file]]
             ELSE [val |-> Error("write error"),
                   fh |-> [h EXCEPT !.file = w.file, !.error = TRUE]]

\* stdlib.rs:249-272: the loop of fgets with line read so far; the host
\* lets luck reads succeed before one fails
RECURSIVE FgetsLoop(_, _, _)
FgetsLoop(h, line, luck) ==
    LET rd == ReadByte(h.file, luck > 0)
    IN  IF ~rd.ok
        THEN [val |-> Error("fgets error: " \o OsError(h.file, TRUE)),
              fh |-> [h EXCEPT !.error = TRUE]]
        ELSE IF rd.n = 0
        THEN [val |-> IF line = "" THEN Null ELSE String(line),
              fh |-> [h EXCEPT !.eof = TRUE]]
        ELSE IF AsChar(rd.buf) = "\n"
        THEN [val |-> String(line \o "\n"), fh |-> [h EXCEPT !.file = rd.file]]
        ELSE FgetsLoop([h EXCEPT !.file = rd.file],
                       line \o AsChar(rd.buf), luck - 1)

fgets(args, h, luck) ==
    IF Len(args) # 1
    THEN [val |-> Error("fgets expected 1 argument"), fh |-> h]
    ELSE IF args[1].t # "File"
    THEN [val |-> Error("fgets arg must be file"), fh |-> h]
    ELSE FgetsLoop(h, "", luck)

\* stdlib.rs:288-300, 487-499: the read of fgetc and getc
ReadChar(h, luck) ==
    LET rd == ReadByte(h.file, luck > 0)
    IN  IF ~rd.ok THEN [val |-> Null, fh |-> [h EXCEPT !.error = TRUE]]
        ELSE IF rd.n = 0 THEN [val |-> Null, fh |-> [h EXCEPT !.eof = TRUE]]
        ELSE [val |-> String(AsChar(rd.buf)),
              fh |-> [h EXCEPT !.file = rd.file]]

fgetc(args, h, luck) ==
    IF Len(args) # 1 THEN [val |-> Error("fgetc expected 1 arg"), fh |-> h]
    ELSE IF args[1].t # "File"
    THEN [val |-> Error("fgetc arg must be file"), fh |-> h]
    ELSE ReadChar(h, luck)

getc(args, h, luck) ==
    IF Len(args) # 1 THEN [val |-> Error("getc expected 1 arg"), fh |-> h]
    ELSE IF args[1].t # "File"
    THEN [val |-> Error("getc arg must be file"), fh |-> h]
    ELSE ReadChar(h, luck)

feof(args, h) ==
    IF Len(args) # 1 THEN [val |-> Error("feof expected 1 arg"), fh |-> h]
    ELSE IF args[1].t # "File"
    THEN [val |-> Error("feof arg must be file"), fh |-> h]
    ELSE [val |-> Boolean(h.eof), fh |-> h]

ferror(args, h) ==
    IF Len(args) # 1 THEN [val |-> Error("ferror expected 1 arg"), fh |-> h]
    ELSE IF args[1].t # "File"
    THEN [val |-> Error("ferror arg must be file"), fh |-> h]
    ELSE [val |-> Boolean(h.error), fh |-> h]

\* File::stream_position is seek(SeekFrom::Current(0))
ftell(args, h, luck) ==
    IF Len(args) # 1 THEN [val |-> Error("ftell expected 1 arg"), fh |-> h]
    ELSE IF args[1].t # "File"
    THEN [val |-> Error("ftell arg must be file"), fh |-> h]
    ELSE LET sk == Seek(h.file, "Current", 0, luck > 0)
         IN  [val |-> IF sk.ok THEN Integer(sk.file.pos) ELSE Integer(-1),
              fh |-> h]

\* stdlib.rs:377-387: the seek of fseek
SeekOrFail(h, from, n, luck) ==
    LET sk == Seek(h.file, from, n, luck > 0)
    IN  IF sk.ok
        THEN [val |-> Integer(0), fh |-> [h EXCEPT !.file = sk.file, !.eof = FALSE]]
        ELSE [val |-> Integer(-1), fh |-> [h EXCEPT !.error = TRUE]]

fseek(args, h, luck) ==
    IF Len(args) # 3 THEN [val |-> Error("fseek expected 3 args"), fh |-> h]
    ELSE IF args[1].t # "File"
    THEN [val |-> Error("fseek arg must be file"), fh |-> h]
    ELSE IF args[2].t # "Integer"
    THEN [val |-> Error("fseek offset must be int"), fh |-> h]
    ELSE IF args[3].t # "Integer"
    THEN [val |-> Error("fseek whence must be int"), fh |-> h]
    ELSE CASE args[3].i = 0 ->
                \* offset as u64
                SeekOrFail(h, "Start", args[2].i % (2 ^ IntBits), luck)
           [] args[3].i = 1 -> SeekOrFail(h, "Current", args[2].i, luck)
           [] args[3].i = 2 -> SeekOrFail(h, "End", args[2].i, luck)
           [] OTHER -> [val |-> Error("invalid whence"), fh |-> h]

\* a rewind that leaves the error flag as it was
RewindKeepingError(args, h, luck) ==
    IF Len(args) # 1 \/ args[1].t # "File"
    THEN [val |-> Error("rewind expected 1 arg"), fh |-> h]
    ELSE [val |-> Null,
          fh |-> [h EXCEPT !.file = Seek(h.file, "Start", 0, luck > 0).file,
                           !.eof = FALSE]]

rewind(args, h, luck) ==
    IF Len(args) # 1 THEN [val |-> Error("rewind expected 1 arg"), fh |-> h]
    ELSE IF args[1].t # "File"
    THEN [val |-> Error("rewind arg must be file"), fh |-> h]
    ELSE [val |-> Null,
          fh |-> [h EXCEPT !.file = Seek(h.file, "Start", 0, luck > 0).file,
                           !.eof = FALSE, !.error = FALSE]]

(***************************************************************************)
(* The evaluator as a machine.  m = [envs, ctl, stack, out]; ctl is        *)
(*   Stmt(node, env)  eval_statement(node, env) is about to run,           *)
(*   Expr(node, env)  eval_expression(node, env) is about to run,          *)
(*   Ret(val)         a call of eval_* is returning val to the top frame,  *)
(*   [m |-> "done"]   eval_program returned val,                           *)
(*   [m |-> "panic"]  the process panicked,                                *)
(*   [m |-> "abort"]  the host stack overflowed.                           *)
(* A frame of the stack is a call of eval_* waiting for a nested call.     *)
(***************************************************************************)
Stmt(node, env) == [m |-> "stmt", node |-> node, env |-> env]
Expr(node, env) == [m |-> "expr", node |-> node, env |-> env]
Ret(val) == [m |-> "ret", val |-> val]
Done(val) == [m |-> "done", val |-> val]
Idle == [m |-> "idle"]

Top(m) == m.stack[Len(m.stack)]
\* the value a call returns, or the panic that ends the process
Returning(m, val) ==
    [m EXCEPT !.ctl = IF val.t = "panic" THEN [m |-> "panic", msg |-> val.msg]
                      ELSE Ret(val)]
\* the top call returns val to the call below it
Pop(m, val) ==
    Returning([m EXCEPT !.stack = SubSeq(@, 1, Len(@) - 1)], val)
\* the top call is replaced by frame, waiting for the nested call c
Replace(m, frame, c) ==
    [m EXCEPT !.stack = Append(SubSeq(@, 1, Len(@) - 1), frame), !.ctl = c]
\* the running call waits in frame for the nested call c
Push(m, frame, c) ==
    IF Len(m.stack) >= MaxStack THEN [m EXCEPT !.ctl = [m |-> "abort"]]
    ELSE [m EXCEPT !.stack = Append(@, frame), !.ctl = c]
\* the top call ends by calling c and returning what c returns
TailCall(m, c) == [m EXCEPT !.stack = SubSeq(@, 1, Len(@) - 1), !.ctl = c]

\* Interpreter::eval_program, up to the first eval_statement
StartProgram(m, statements, env) ==
    IF statements = <<>> THEN [m EXCEPT !.ctl = Done(Null)]
    ELSE Push(m, [f |-> "Program", rest |-> Tail(statements), env |-> env],
              Stmt(Head(statements), env))

\* a statement sequence that stops at a ReturnValue only, which
\* interpreter.rs:39-44 does not do
StopsAtReturnOnly(val) == val.t = "ReturnValue"

\* whether a statement sequence stops at statement result val
\* (interpreter.rs:22-27, 39-44)
ShortCircuits(val) == val.t = "ReturnValue" \/ is_error(val)

\* Interpreter::eval_program, after eval_statement returned
ReturnToProgram(m) ==
    LET fr == Top(m)
        val == m.ctl.val
    IN  IF val.t = "ReturnValue"
        THEN [m EXCEPT !.stack = <<>>, !.ctl = Done(val.val)]
        ELSE IF is_error(val) \/ fr.rest = <<>>
        THEN [m EXCEPT !.stack = <<>>, !.ctl = Done(val)]
        ELSE Replace(m, [fr EXCEPT !.rest = Tail(@)],
                     Stmt(Head(fr.rest), fr.env))

\* Interpreter::eval_block, after eval_statement returned
ReturnToBlock(m) ==
    LET fr == Top(m)
        val == m.ctl.val
    IN  IF ShortCircuits(val) \/ fr.rest = <<>> THEN Pop(m, val)
        ELSE Replace(m, [fr EXCEPT !.rest = Tail(@)],
                     Stmt(Head(fr.rest), fr.env))

\* an eval_statement whose Function values hold a copy of the environment
\* they are declared in, which interpreter.rs:107 does not do
EvalStatementCopying(m) ==
    LET stmt == m.ctl.node
        env == m.ctl.env
    IN  CASE stmt.k = "Expression" ->
               [m EXCEPT !.ctl = Expr(stmt.value, env)]
          [] stmt.k = "Return" ->
               Push(m, [f |-> "Return"], Expr(stmt.value, env))
          [] stmt.k = "Let" ->
               Push(m, [f |-> "Let", name |-> stmt.name, env |-> env],
                    Expr(stmt.value, env))
          [] stmt.k = "Block" ->
               IF stmt.stmts = <<>> THEN Returning(m, Null)
               ELSE Push(m, [f |-> "Block", rest |-> Tail(stmt.stmts),
                             env |-> env],
                         Stmt(Head(stmt.stmts), env))
          [] stmt.k = "If" ->
               Push(m, [f |-> "If", consequence |-> stmt.consequence,
                        alternative |-> stmt.alternative, env |-> env],
                    Expr(stmt.condition, env))
          [] stmt.k = "While" ->
               Push(m, [f |-> "WhileCond", condition |-> stmt.condition,
                        body |-> stmt.body, env |-> env],
                    Expr(stmt.condition, env))
          [] stmt.k = "Function" ->
               LET func == FunctionObj(stmt.params, stmt.body, Len(m.envs) + 1)
               IN  Returning([m EXCEPT !.envs =
                                EnvSet(Append(@, m.envs[env]), env,
                                       stmt.name, func)], func)

\* Interpreter::eval_statement, up to its first nested call
EvalStatement(m) ==
    LET stmt == m.ctl.node
        env == m.ctl.env
    IN  CASE stmt.k = "Expression" ->
               [m EXCEPT !.ctl = Expr(stmt.value, env)]
          [] stmt.k = "Return" ->
               Push(m, [f |-> "Return"], Expr(stmt.value, env))
          [] stmt.k = "Let" ->
               Push(m, [f |-> "Let", name |-> stmt.name, env |-> env],
                    Expr(stmt.value, env))
          [] stmt.k = "Block" ->
               IF stmt.stmts = <<>> THEN Returning(m, Null)
               ELSE Push(m, [f |-> "Block", rest |-> Tail(stmt.stmts),
                             env |-> env],
                         Stmt(Head(stmt.stmts), env))
          [] stmt.k = "If" ->
               Push(m, [f |-> "If", consequence |-> stmt.consequence,
                        alternative |-> stmt.alternative, env |-> env],
                    Expr(stmt.condition, env))
          [] stmt.k = "While" ->
               Push(m, [f |-> "WhileCond", condition |-> stmt.condition,
                        body |-> stmt.body, env |-> env],
                    Expr(stmt.condition, env))
          [] stmt.k = "Function" ->
               LET func == FunctionObj(stmt.params, stmt.body, env)
               IN  Returning([m EXCEPT !.envs =
                                EnvSet(@, env, stmt.name, func)], func)

\* eval_statement, Statement::Return, after eval_expression returned
ReturnToReturn(m) ==
    LET val == m.ctl.val
    IN  IF is_error(val) THEN Pop(m, val) ELSE Pop(m, ReturnValue(val))

\* eval_statement, Statement::Let, after eval_expression returned
ReturnToLet(m) ==
    LET fr == Top(m)
        val == m.ctl.val
    IN  IF is_error(val) THEN Pop(m, val)
        ELSE Pop([m EXCEPT !.envs = EnvSet(@, fr.env, fr.name, val)], val)

\* eval_statement, Statement::If, after the condition returned
ReturnToIf(m) ==
    LET fr == Top(m)
        cond == m.ctl.val
    IN  IF is_error(cond) THEN Pop(m, cond)
        ELSE IF is_truthy(cond) THEN TailCall(m, Stmt(fr.consequence, fr.env))
        ELSE IF fr.alternative # None
        THEN TailCall(m, Stmt(fr.alternative, fr.env))
        ELSE Pop(m, Null)

\* a loop that runs each iteration of its body in a scope of its own, which
\* interpreter.rs:96 does not do
ReturnToWhileCondScoped(m) ==
    LET fr == Top(m)
        cond == m.ctl.val
    IN  IF is_error(cond) THEN Pop(m, cond)
        ELSE IF ~is_truthy(cond) THEN Pop(m, Null)
        ELSE Replace([m EXCEPT !.envs = Append(@, NewEnclosed(fr.env))],
                     [fr EXCEPT !.f = "WhileBody"],
                     Stmt(fr.body, Len(m.envs) + 1))

\* eval_statement, Statement::While, after the condition returned
ReturnToWhileCond(m) ==
    LET fr == Top(m)
        cond == m.ctl.val
    IN  IF is_error(cond) THEN Pop(m, cond)
        ELSE IF ~is_truthy(cond) THEN Pop(m, Null)
        ELSE Replace(m, [fr EXCEPT !.f = "WhileBody"], Stmt(fr.body, fr.env))

\* a loop that goes back to its condition whatever the body returned, which
\* interpreter.rs:98-102 does not do
ReturnToWhileBodyUnchecked(m) ==
    Replace(m, [Top(m) EXCEPT !.f = "WhileCond"],
            Expr(Top(m).condition, Top(m).env))

\* eval_statement, Statement::While, after the body returned
ReturnToWhileBody(m) ==
    LET fr == Top(m)
        res == m.ctl.val
    IN  IF ShortCircuits(res) THEN Pop(m, res)
        ELSE Replace(m, [fr EXCEPT !.f = "WhileCond"],
                     Expr(fr.condition, fr.env))

\* dynamic scoping, which interpreter.rs:174 does not do: the environment of
\* a call enclosed by the caller's
CallOuterDynamic(func, caller) == caller

\* the environment a call of func runs its body in is enclosed by
\* (interpreter.rs:174); caller is the environment of the call expression
CallOuter(func, caller) == func.env

\* every parameter bound to the first argument, which interpreter.rs:175-177
\* does not do
RECURSIVE BindToFirst(_, _, _, _)
BindToFirst(store, params, args, i) ==
    IF i > Len(params) \/ i > Len(args) THEN store
    ELSE BindToFirst(Insert(store, params[i], args[1]), params, args, i + 1)

\* `for (param, arg) in params.iter().zip(args) { enclosed.set(param, arg) }`
RECURSIVE BindParams(_, _, _, _)
BindParams(store, params, args, i) ==
    IF i > Len(params) \/ i > Len(args) THEN store
    ELSE BindParams(Insert(store, params[i], args[i]), params, args, i + 1)

\* an arity check that lets missing arguments pass, which
\* interpreter.rs:164 does not do
ArityAtMost(func, args) == Len(args) <= Len(func.params)

\* whether a call of func with args passes the arity check
ArityOk(func, args) == Len(func.params) = Len(args)

\* a call that binds the parameters in the environment the function
\* captured and runs the body there, which interpreter.rs:173-179 does not do
ApplyInCaptured(m, func, args, caller) ==
    CASE func.t = "Function" ->
           IF ~ArityOk(func, args)
           THEN Pop(m, Error("wrong number of arguments: want="
                               \o ToString(Len(func.params)) \o ", got="
                               \o ToString(Len(args))))
           ELSE Replace([m EXCEPT !.envs[func.env].store =
                                    BindParams(@, func.params, args, 1)],
                        [f |-> "CallBody"], Stmt(func.body, func.env))
      [] func.t = "Builtin" ->
           LET r == CallBuiltin(func.name, args, m.out)
           IN  Pop([m EXCEPT !.out = r.out], r.val)
      [] OTHER -> Pop(m, Error("not a function: " \o DebugObject(func)))

\* eval_expression, Expression::Call, after the arguments are evaluated;
\* m.stack has the frame of this Call on top, caller is its environment
Apply(m, func, args, caller) ==
    CASE func.t = "Function" ->
           IF ~ArityOk(func, args)
           THEN Pop(m, Error("wrong number of arguments: want="
                               \o ToString(Len(func.params)) \o ", got="
                               \o ToString(Len(args))))
           ELSE LET enclosed == [NewEnclosed(CallOuter(func, caller)) EXCEPT
                                   !.store = BindParams(@, func.params, args, 1)]
                    id == Len(m.envs) + 1
                IN  Replace([m EXCEPT !.envs = Append(@, enclosed)],
                            [f |-> "CallBody"], Stmt(func.body, id))
      [] func.t = "Builtin" ->
           LET r == CallBuiltin(func.name, args, m.out)
           IN  Pop([m EXCEPT !.out = r.out], r.val)
      [] OTHER -> Pop(m, Error("not a function: " \o DebugObject(func)))

\* eval_expression, Expression::Call: the next argument is evaluated, or
\* the callee is applied when none is left
NextArgument(m, fr) ==
    IF fr.rest = <<>> THEN Apply(m, fr.func, fr.args, fr.env)
    ELSE Replace(m, [fr EXCEPT !.rest = Tail(@)], Expr(Head(fr.rest), fr.env))

\* a call that checks the callee and the number of arguments before it
\* evaluates the arguments, which interpreter.rs:155-171 does not do
ReturnToCallFunctionChecked(m) ==
    LET fr == Top(m)
        func == m.ctl.val
    IN  IF is_error(func) THEN Pop(m, func)
        ELSE IF func.t \notin {"Function", "Builtin"}
                  \/ (func.t = "Function" /\ ~ArityOk(func, fr.arguments))
        THEN Apply(m, func, fr.arguments, fr.env)
        ELSE NextArgument(m, [f |-> "CallArgs", func |-> func, args |-> <<>>,
                              rest |-> fr.arguments, env |-> fr.env])

\* eval_expression, Expression::Call, after the function position returned
ReturnToCallFunction(m) ==
    LET fr == Top(m)
        func == m.ctl.val
    IN  IF is_error(func) THEN Pop(m, func)
        ELSE NextArgument(m, [f |-> "CallArgs", func |-> func, args |-> <<>>,
                              rest |-> fr.arguments, env |-> fr.env])

\* eval_expression, Expression::Call, after an argument returned
ReturnToCallArgs(m) ==
    LET fr == Top(m)
        val == m.ctl.val
    IN  IF is_error(val) THEN Pop(m, val)
        ELSE NextArgument(m, [fr EXCEPT !.args = Append(@, val)])

\* a call that hands on what its body returned as it is, which
\* interpreter.rs:179-185 does not do
ReturnToCallBodyAsIs(m) == Pop(m, m.ctl.val)

\* eval_expression, Expression::Call, after the body returned
ReturnToCallBody(m) ==
    LET res == m.ctl.val
    IN  IF res.t = "ReturnValue" THEN Pop(m, res.val) ELSE Pop(m, res)

\* eval_expression, Expression::Prefix, after the operand returned
ReturnToPrefix(m, b) ==
    LET fr == Top(m)
        right == m.ctl.val
    IN  IF is_error(right) THEN Pop(m, right)
        ELSE Pop(m, eval_prefix_expression(fr.operator, right, b))

\* eval_expression, Expression::Infix, after the left operand returned
ReturnToInfixLeft(m) ==
    LET fr == Top(m)
        left == m.ctl.val
    IN  IF is_error(left) THEN Pop(m, left)
        ELSE Replace(m, [f |-> "InfixRight", operator |-> fr.operator,
                         left |-> left],
                     Expr(fr.right, fr.env))

\* eval_expression, Expression::Infix, after the right operand returned
ReturnToInfixRight(m, b) ==
    LET fr == Top(m)
        right == m.ctl.val
    IN  IF is_error(right) THEN Pop(m, right)
        ELSE Pop(m, eval_infix_expression(fr.operator, fr.left, right, b))

\* Interpreter::eval_expression, up to its first nested call
EvalExpression(m) ==
    LET expr == m.ctl.node
        env == m.ctl.env
    IN  CASE expr.k = "Integer" -> Returning(m, Integer(expr.i))
          [] expr.k = "String" -> Returning(m, String(expr.s))
          [] expr.k = "Boolean" -> Returning(m, Boolean(expr.b))
          [] expr.k = "Identifier" ->
               LET r == EnvGet(m.envs, env, expr.s)
               IN  IF r.ok THEN Returning(m, r.v)
                   ELSE Returning(m, Error("identifier not found: " \o expr.s))
          [] expr.k = "Prefix" ->
               Push(m, [f |-> "Prefix", operator |-> expr.operator],
                    Expr(expr.right, env))
          [] expr.k = "Infix" ->
               Push(m, [f |-> "InfixLeft", operator |-> expr.operator,
                        right |-> expr.right, env |-> env],
                    Expr(expr.left, env))
          [] expr.k = "Call" ->
               Push(m, [f |-> "CallFunction", arguments |-> expr.arguments,
                        env |-> env],
                    Expr(expr.function, env))

(***************************************************************************)
(* main.rs: the driver, and the programs it is run on                      *)
(***************************************************************************)
Builds == {"debug", "release"}

Sources == {
    \* loops
    "int i = 0; while (i < 3) { i = i + 1; } i",
    "int i = 0; while (i < 3) { int i = i + 1; } i",
    "int f(int n) { int i = 0; while (1) { if (i == n) { return i; } int i = i + 1; } } f(2)",
    "while (0) { nope(); } while (nope) { 1; }",
    "int a = 1; if (a) { int a = 5; int b = 6; } { int c = a + b; } while (c) { int d = c; int c = 0; } a + b + c + d",
    "int n = 2; while (n) { int n = n - 1; } while (1) { nope(); 1 }",
    \* division, arithmetic, overflow
    "6 / 0", "0 / 0", "int x = 7 / (2 - 2); puts(x); x",
    "0 - 7 / 2", "-7 / 2 + 7 / -2", "(0 - 127 - 1) / -1",
    "100 + 100", "0 - 100 - 100", "64 * 2", "-(0 - 127 - 1)",
    "5 + 3 * 2", "(5 + 3) * 2", "7 - 2 - 1", "2 * 3 < 7 == 1 < 2",
    \* functions and scopes
    "int add(int a, int b) { return a + b; } add(2, 3)",
    "int add(int a, int b) { return a + b; } add(1)",
    "int f() { 1 } f(1, 2)",
    "int f() { } f()",
    "int f(int a) { a; a + 1 } f(1)",
    "int f(int a) { if (a) { return 1; } else { return 2; } 3 } f(0) + f(5)",
    "int x = 1; int f() { return x; } int g() { int x = 2; return f(); } g()",
    "int x = 1; int f() { return x; } int g(int x) { return f(); } g(2)",
    "int x = 1; int f() { return x; } int g(int x) { int h() { return f(); } return h(); } g(2)",
    "int mk() { int y = 5; int get() { return y; } return get; } int y = 9; int h = mk(); h()",
    "int x = 1; int f() { int x = 2; return x; } f() + x",
    "int x = 1; int f(int x) { int x = x + 1; return x; } f(5) * 10 + x",
    "int fact(int n) { if (n < 2) { return 1; } return n * fact(n - 1); } fact(4)",
    "int f() { return f(); } f()",
    "int f() { return x; } int x = 1; int a = f(); int x = 2; a * 10 + f()",
    "int ev(int n) { if (n) { return od(n - 1); } 1 } int od(int n) { if (n) { return ev(n - 1); } 0 } ev(3)",
    "int f(int n) { if (n < 1) { return 0; } int r = f(n - 1); return r + n; } f(3)",
    "int f(int a, int a) { return a; } f(1, 2)",
    \* errors
    "undefined_fn(); int a = 1; a",
    "int a = 1; undefined_fn(); int a = 2; a",
    "int a = 1; { int a = 2; undefined_fn(); int a = 3; } int a = 4;",
    "int f() { undefined_fn(); return 1; } int a = f(); int b = 2;",
    "int f(int a) { return a; } f(1, nope, 3)",
    "int x = 1; x()", "int x = 1; x(2, nope, 3)", "1 + \"a\"", "-\"a\"", "true + false", "return nope; 1",
    \* values
    "true == false", "null == null", "\"a\" == \"a\"", "\"a\\n\" != 1",
    "puts == puts", "puts != puts", "puts == putchar",
    "int g = fopen(\"a\", \"r\"); puts(g == g); puts(g != g); g == fopen(\"a\", \"r\")",
    "int mk() { int get() { return 1; } return get; } int a = mk(); int b = mk(); puts(a != b); a == b",
    "int f() { } int h(int a) { } puts(f == h); f != h",
    "puts(1 == 1); puts(1 != 1); puts(\"a\" != \"b\"); puts(null != null); puts(true != true); 1 == 2",
"puts(1); int puts = 2; puts",
    "int f() { } int g = f; f == g", "int f() { } f != puts",
    "int f() { } if (f) { if (puts) { if (fopen(\"a\", \"r\")) { if (\"\") { if (true) { if (7) { puts(1); } } } } } }",
    "if (0) { puts(1); } else { if (false) { puts(2); } else { if (null) { puts(3); } else { puts(4); } } }",
    "if (fopen(\"b\", \"r\")) { 1 } else { 2 }", "fopen(\"\", \"w\"); fopen(1, 2); fopen(\"a\", 2); fopen()",
    "if (\"\") { 1 } else { 2 }", "if (null) { 1 }", "if (nope) { 1 } else { 2 }",
    "return 5; 6", "{ return 7; 8 } 9", "",
    \* builtins
    "puts(1); puts(\"a\", 2); putchar(\"xy\"); putchar(); fclose(); puts(puts)",
    \* sources the parser rejects, and one the tokenizer panics on
    "int x 5;", "if x { 1 }", "int f(int a { } 1", "(1 + 2", "300", "1; 2 + 999",
    "int x 5; if x { 1 } puts(1)"
}

\* what `println!("Parser errors:")` and the loop of main.rs:42-44 print
RECURSIVE ErrorLines(_, _)
ErrorLines(errors, i) ==
    IF i > Len(errors) THEN ""
    ELSE "\t" \o errors[i] \o "\n" \o ErrorLines(errors, i + 1)

\* the evaluator's variables as one machine, and back
Machine == [envs |-> envs, ctl |-> ctl, stack |-> stack, out |-> out]
PcAfter(m) ==
    CASE m.ctl.m = "done" -> "evaluated"
      [] m.ctl.m = "panic" -> "panicked"
      [] m.ctl.m = "abort" -> "aborted"
      [] OTHER -> "eval"
SetMachine(m) ==
    /\ envs' = m.envs
    /\ ctl' = m.ctl
    /\ stack' = m.stack
    /\ out' = m.out
    /\ pc' = PcAfter(m)
    /\ result' = IF m.ctl.m = "done" THEN m.ctl.val ELSE result

\* main.rs:36-37: Lexer::new, Parser::new
MainNewParser ==
    /\ pc = "start"
    /\ parser' = ParserNew(lexer)
    /\ pc' = IF parser'.panicked THEN "panicked" ELSE "parse"
    /\ UNCHANGED <<build, fh, lexer, tokens, program, envs, ctl, stack, result, out>>

\* one iteration of the loop of parse_program (parser.rs:53-58)
ParseProgramStep ==
    /\ pc = "parse"
    /\ parser.cur_token # EOF
    /\ LET r == ParseProgramIteration(parser, program)
       IN  /\ parser' = r.p
           /\ program' = r.statements
           /\ pc' = IF r.p.panicked THEN "panicked" ELSE "parse"
    /\ UNCHANGED <<build, fh, lexer, tokens, envs, ctl, stack, result, out>>

\* main.rs:40-45: parse_program returned with errors
MainParserErrors ==
    /\ pc = "parse"
    /\ parser.cur_token = EOF
    /\ parser.errors # <<>>
    /\ out' = out \o "Parser errors:\n" \o ErrorLines(parser.errors, 1)
    /\ pc' = "exit1"
    /\ UNCHANGED <<build, fh, lexer, tokens, parser, program, envs, ctl, stack, result>>

\* main.rs:46-62 without the test of parser.errors
BootstrapRegardless ==
    /\ pc = "parse"
    /\ parser.cur_token = EOF
    /\ SetMachine(StartProgram([envs |-> <<Bootstrap>>, ctl |-> Idle,
                                stack |-> <<>>, out |-> out], program, 1))
    /\ UNCHANGED <<build, fh, lexer, tokens, parser, program>>

\* main.rs:46-62: the global environment is bootstrapped and eval_program
\* called
MainBootstrap ==
    /\ pc = "parse"
    /\ parser.cur_token = EOF
    /\ parser.errors = <<>>
    /\ SetMachine(StartProgram([envs |-> <<Bootstrap>>, ctl |-> Idle,
                                stack |-> <<>>, out |-> out], program, 1))
    /\ UNCHANGED <<build, fh, lexer, tokens, parser, program>>

EvalStatementStep ==
    /\ pc = "eval"
    /\ ctl.m = "stmt"
    /\ SetMachine(EvalStatement(Machine))
    /\ UNCHANGED <<build, fh, lexer, tokens, parser, program>>

EvalExpressionStep ==
    /\ pc = "eval"
    /\ ctl.m = "expr"
    /\ SetMachine(EvalExpression(Machine))
    /\ UNCHANGED <<build, fh, lexer, tokens, parser, program>>

\* the rule of the call that a value is returned to
ReturnStep(m, b) ==
    LET f == Top(m).f
    IN  CASE f = "Program" -> ReturnToProgram(m)
          [] f = "Block" -> ReturnToBlock(m)
          [] f = "Return" -> ReturnToReturn(m)
          [] f = "Let" -> ReturnToLet(m)
          [] f = "If" -> ReturnToIf(m)
          [] f = "WhileCond" -> ReturnToWhileCond(m)
          [] f = "WhileBody" -> ReturnToWhileBody(m)
          [] f = "CallFunction" -> ReturnToCallFunction(m)
          [] f = "CallArgs" -> ReturnToCallArgs(m)
          [] f = "CallBody" -> ReturnToCallBody(m)
          [] f = "Prefix" -> ReturnToPrefix(m, b)
          [] f = "InfixLeft" -> ReturnToInfixLeft(m)
          [] f = "InfixRight" -> ReturnToInfixRight(m, b)

\* a statement returned to eval_program, eval_block or a loop
ReturnStatementStep ==
    /\ pc = "eval"
    /\ ctl.m = "ret"
    /\ Top(Machine).f \in {"Program", "Block", "WhileBody", "CallBody"}
    /\ SetMachine(ReturnStep(Machine, build))
    /\ UNCHANGED <<build, fh, lexer, tokens, parser, program>>

\* an expression returned to the statement or the expression that needs it
ReturnExpressionStep ==
    /\ pc = "eval"
    /\ ctl.m = "ret"
    /\ Top(Machine).f \notin {"Program", "Block", "WhileBody", "CallBody"}
    /\ SetMachine(ReturnStep(Machine, build))
    /\ UNCHANGED <<build, fh, lexer, tokens, parser, program>>

\* main.rs:64-70: the result is printed unless it is Null
MainPrintResult ==
    /\ pc = "evaluated"
    /\ out' = IF ~ObjectEq(result, Null)
              THEN out \o "Interpreter Result: " \o Inspect(result) \o "\n"
              ELSE out
    /\ pc' = "exit0"
    /\ UNCHANGED <<build, fh, lexer, tokens, parser, program, envs, ctl, stack, result>>

\* one step of the evaluator
Step(m, b) ==
    CASE m.ctl.m = "stmt" -> EvalStatement(m)
      [] m.ctl.m = "expr" -> EvalExpression(m)
      [] m.ctl.m = "ret" -> ReturnStep(m, b)

\* Interpreter::eval_program run from machine m until it returns, panics
\* or overflows the host stack
RECURSIVE EvalProgram(_, _)
EvalProgram(m, b) ==
    IF m.ctl.m \in {"done", "panic", "abort"} THEN m
    ELSE EvalProgram(Step(m, b), b)

\* a second evaluation given the bindings the first left in its global
\* environment
GlobalReused(h) == [envs |-> Append(h, h[1]), env |-> Len(h) + 1]

\* main.rs:47-58 once more: a freshly bootstrapped global environment in
\* heap h, [envs |-> the heap, env |-> the new cell]
FreshGlobal(h) == [envs |-> Append(h, Bootstrap), env |-> Len(h) + 1]

\* the same Interpreter evaluates the same Program a second time
\* (interpreter.rs:16-31), against the environment of FreshGlobal
MainEvalAgain ==
    /\ pc = "evaluated"
    /\ \E g \in {FreshGlobal(envs)} :
       \E r \in {EvalProgram(StartProgram([envs |-> g.envs, ctl |-> Idle,
                                            stack |-> <<>>, out |-> out],
                                           program, g.env), build)} :
         /\ envs' = r.envs
         /\ ctl' = r.ctl
         /\ stack' = r.stack
         /\ out' = r.out
         /\ result' = IF r.ctl.m = "done" THEN r.ctl.val ELSE None
         /\ pc' = IF r.ctl.m = "done" THEN "reevaluated" ELSE PcAfter(r)
    /\ UNCHANGED <<build, fh, lexer, tokens, parser, program>>

\* no Parser yet
NoParser == [cur_token |-> EOF, peek_token |-> EOF, errors |-> <<>>,
             panicked |-> FALSE, lexer |-> [stream |-> <<>>, taken |-> 0]]

Init ==
    /\ build \in Builds
    /\ pc = "start"
    /\ \E src \in Sources : lexer = LexerNew(src)
    /\ tokens = <<>>
    /\ parser = NoParser
    /\ program = <<>>
    /\ envs = <<>>
    /\ ctl = Idle
    /\ stack = <<>>
    /\ result = None
    /\ out = ""
    /\ fh = NoHandle

Next ==
    \/ MainNewParser
    \/ ParseProgramStep
    \/ MainParserErrors
    \/ MainBootstrap
    \/ EvalStatementStep
    \/ EvalExpressionStep
    \/ ReturnStatementStep
    \/ ReturnExpressionStep
    \/ MainPrintResult

Spec == Init /\ [][Next]_vars

\* main followed by a second evaluation of the program it parsed
NextTwice == Next \/ MainEvalAgain
SpecTwice == Init /\ [][NextTwice]_vars

\* the steps of main after parse_program returned
AfterParse ==
    \/ MainParserErrors
    \/ MainBootstrap
    \/ EvalStatementStep
    \/ EvalExpressionStep
    \/ ReturnStatementStep
    \/ ReturnExpressionStep
    \/ MainPrintResult

\* The process runs while it can: no step of main waits for anything.  The
\* two steps of the parser are enabled exactly when their guards hold, and
\* their weak fairness is written out as []<>(~guard) \/ []<><<step>>_vars.
FairSpec ==
    /\ Spec
    /\ WF_vars(AfterParse)
    /\ ([]<>(pc # "start") \/ []<><<MainNewParser>>_vars)
    /\ ([]<>~(pc = "parse" /\ parser.cur_token # EOF)
          \/ []<><<ParseProgramStep>>_vars)


(***************************************************************************)
(* The claims.                                                             *)
(***************************************************************************)
\* the process was started on src
RunOf(src) == lexer.input = Chars(src)
\* main returned normally after eval_program returned val
Yields(val) == pc = "exit0" /\ result = val
\* a value is being returned to the frame f of the evaluator
ReturningTo(f) == pc = "eval" /\ ctl.m = "ret" /\ Top(Machine).f = f

CountingLoop == "int i = 0; while (i < 3) { i = i + 1; } i"

\* C1: the pipeline run on `int i = 0; while (i < 3) { i = i + 1; } i`
\* terminates with no parse errors and the final value Integer(3).
C1_CountingLoopYieldsThree ==
    RunOf(CountingLoop) ~> (parser.errors = <<>> /\ Yields(Integer(3)))

\* C2: for every Integer l, `l / r` with r = Integer(0) returns an Error
\* value to the caller of eval_infix_expression; the process does not panic.
C2_DivisionByZeroIsError ==
    [][(/\ ReturningTo("InfixRight")
        /\ Top(Machine).operator = Tok("Slash")
        /\ Top(Machine).left.t = "Integer"
        /\ ctl.val = Integer(0))
       => (ctl'.m = "ret" /\ is_error(ctl'.val))]_vars


\* the names the programs of the model bind
Names == {"x", "y", "a", "b", "i", "n", "f", "g", "h", "mk", "get", "add",
          "fact", "puts", "true", "null"}

\* the callee and the evaluated arguments of the call whose last operand
\* is being returned
Callee ==
    IF Top(Machine).f = "CallFunction" THEN ctl.val ELSE Top(Machine).func
Arguments ==
    IF Top(Machine).f = "CallFunction" THEN <<>>
    ELSE Append(Top(Machine).args, ctl.val)
\* the next step applies a callee to its arguments
Applies ==
    /\ pc = "eval" /\ ctl.m = "ret" /\ ~is_error(ctl.val)
    /\ \/ Top(Machine).f = "CallFunction" /\ Top(Machine).arguments = <<>>
       \/ Top(Machine).f = "CallArgs" /\ Top(Machine).rest = <<>>
\* ... a user-defined function, with as many arguments as parameters or not
CallsFunction ==
    Applies /\ Callee.t = "Function" /\ Len(Callee.params) = Len(Arguments)
ArityMismatch ==
    Applies /\ Callee.t = "Function" /\ Len(Callee.params) # Len(Arguments)
\* the environment the call expression is evaluated in
CallerEnv == Top(Machine).env
\* the environment created by the step
NewEnv == Len(envs')

\* C3: a call of a Function creates one environment whose outer link is the
\* environment the function was declared in (the one it captured), and every
\* name that is not a parameter resolves in the new environment as it does
\* in the captured one, whatever the caller's environment binds; a
\* declaration captures the environment it is evaluated in.
C3_LexicalScoping ==
    [][/\ CallsFunction =>
            /\ envs' = Append(envs, envs'[NewEnv])
            /\ envs'[NewEnv].outer = Callee.env
            /\ ctl' = Stmt(Callee.body, NewEnv)
            /\ \A name \in Names :
                 (\A i \in 1..Len(Callee.params) : Callee.params[i] # name)
                 => EnvGet(envs', NewEnv, name) = EnvGet(envs, Callee.env, name)
       /\ (pc = "eval" /\ ctl.m = "stmt" /\ ctl.node.k = "Function") =>
            /\ ctl'.m = "ret" /\ ctl'.val.t = "Function" /\ ctl'.val.env = ctl.env
            /\ EnvGet(envs', ctl.env, ctl.node.name) = [ok |-> TRUE, v |-> ctl'.val]
      ]_vars

\* a function is called from an environment that is not the captured one
\* and resolves a name, free in the function, to another value
C3_CalledFromAnotherScope ==
    /\ CallsFunction
    /\ CallerEnv # Callee.env
    /\ \E name \in Names :
         /\ \A i \in 1..Len(Callee.params) : Callee.params[i] # name
         /\ EnvGet(envs, CallerEnv, name).ok
         /\ EnvGet(envs, Callee.env, name).ok
         /\ EnvGet(envs, CallerEnv, name) # EnvGet(envs, Callee.env, name)


\* programs that call the unbound name undefined_fn
UndefinedFnPrograms == {
    "undefined_fn(); int a = 1; a",
    "int a = 1; undefined_fn(); int a = 2; a",
    "int a = 1; { int a = 2; undefined_fn(); int a = 3; } int a = 4;",
    "int f() { undefined_fn(); return 1; } int a = f(); int b = 2;"
}
UndefinedFn == Error("identifier not found: undefined_fn")

\* C4: an Error returned to eval_program or eval_block (or to any other
\* caller) is returned unchanged one call down, or is the program's result,
\* in a step that changes no binding and prints nothing, so that no later
\* statement of the sequence is evaluated; a program that calls
\* undefined_fn() ends with Error("identifier not found: undefined_fn").
C4_ErrorShortCircuit ==
    /\ [][(pc = "eval" /\ ctl.m = "ret" /\ is_error(ctl.val)) =>
            /\ envs' = envs
            /\ out' = out
            /\ \/ /\ Top(Machine).f # "Program"
                  /\ ctl' = Ret(ctl.val)
                  /\ stack' = SubSeq(stack, 1, Len(stack) - 1)
               \/ /\ Top(Machine).f = "Program"
                  /\ ctl' = Done(ctl.val)
                  /\ result' = ctl.val]_vars
    /\ [](((\E src \in UndefinedFnPrograms : RunOf(src))
           /\ pc \in {"evaluated", "exit0"}) => result = UndefinedFn)

\* a program ends with the Error of its second statement, and the binding
\* its third statement would change is the one of the first
C4_LaterStatementsNotEvaluated ==
    /\ RunOf("int a = 1; undefined_fn(); int a = 2; a")
    /\ Yields(UndefinedFn)
    /\ EnvGet(envs, 1, "a") = [ok |-> TRUE, v |-> Integer(1)]


WrongNumber(want, got) ==
    Error("wrong number of arguments: want=" \o ToString(want)
            \o ", got=" \o ToString(got))

\* C5: a call of a Function of N parameters with M # N evaluated arguments
\* returns Error("wrong number of arguments: want=N, got=M") to the caller
\* of the call expression in a step that creates no environment, changes no
\* binding and does not start the body; a 2-parameter function called with
\* one argument ends the program with want=2, got=1.
C5_ArityCheck ==
    /\ [][ArityMismatch =>
            /\ envs' = envs
            /\ out' = out
            /\ ctl' = Ret(WrongNumber(Len(Callee.params), Len(Arguments)))
            /\ stack' = SubSeq(stack, 1, Len(stack) - 1)]_vars
    /\ []((RunOf("int add(int a, int b) { return a + b; } add(1)")
           /\ pc \in {"evaluated", "exit0"}) => result = WrongNumber(2, 1))

\* a function of two parameters is about to be applied to one argument
C5_TwoParametersOneArgument ==
    ArityMismatch /\ Len(Callee.params) = 2 /\ Len(Arguments) = 1


(***************************************************************************)
(* Expressions: the pipeline run on every expression of ExprDepth levels   *)
(* of operators over integer literals, written with no parentheses, with   *)
(* the parentheses its tree needs, or with all of them.                    *)
(***************************************************************************)
ExprDepth == 2
ExprInts == {1, 2}
ExprStyles == {"flat", "needed", "full"}

\* the expressions of one more level of operators than those of S
Grow(S) ==
    S \cup {Prefix(Tok("Minus"), e) : e \in S}
      \cup {Infix(l, Tok(op), r) : l \in S, op \in BinaryOps, r \in S}
RECURSIVE ExprsOfDepth(_)
ExprsOfDepth(d) ==
    IF d = 0 THEN {IntegerLit(i) : i \in ExprInts} ELSE Grow(ExprsOfDepth(d - 1))

\* how tightly a binary operator binds, by the table of the language:
\* `== !=` below `< >` below `+ -` below `* /`
Rank(op) ==
    CASE op.k \in {"Equal", "NotEqual"} -> 1
      [] op.k \in {"LessThan", "GreaterThan"} -> 2
      [] op.k \in {"Plus", "Minus"} -> 3
      [] op.k \in {"Asterisk", "Slash"} -> 4

Spelling(op) ==
    CASE op.k = "Equal" -> "==" [] op.k = "NotEqual" -> "!="
      [] op.k = "LessThan" -> "<" [] op.k = "GreaterThan" -> ">"
      [] op.k = "Plus" -> "+" [] op.k = "Minus" -> "-"
      [] op.k = "Asterisk" -> "*" [] op.k = "Slash" -> "/"

\* the text of expression e as the operand `side` of operator `op` (None at
\* the top), in a style
RECURSIVE Written(_, _, _, _)
InParens(e, style) == "(" \o Written(e, None, "top", style) \o ")"
NeedsParens(e, op, side) ==
    /\ op # None
    /\ e.k = "Infix"
    /\ \/ side = "operand"
       \/ side = "left" /\ Rank(e.operator) < Rank(op)
       \/ side = "right" /\ Rank(e.operator) <= Rank(op)
Bare(e, style) ==
    CASE e.k = "Integer" -> ToString(e.i)
      [] e.k = "Prefix" -> "-" \o Written(e.right, e.operator, "operand", style)
      [] e.k = "Infix" ->
           Written(e.left, e.operator, "left", style) \o " "
             \o Spelling(e.operator) \o " "
             \o Written(e.right, e.operator, "right", style)
Written(e, op, side, style) ==
    IF \/ style = "full" /\ op # None /\ e.k # "Integer"
       \/ style = "needed" /\ NeedsParens(e, op, side)
    THEN InParens(e, style)
    ELSE Bare(e, style)

\* the expressions of d levels in every style, and three more
ExprSources(d) ==
    {Written(e, None, "top", style) : e \in ExprsOfDepth(d), style \in ExprStyles}
      \cup {"5 + 3 * 2", "(5 + 3) * 2", "a - b - c"}


InitExpr ==
    /\ build \in Builds
    /\ pc = "start"
    /\ \E src \in ExprSources(ExprDepth) : lexer = LexerNew(src)
    /\ tokens = <<>>
    /\ parser = NoParser
    /\ program = <<>>
    /\ envs = <<>>
    /\ ctl = Idle
    /\ stack = <<>>
    /\ result = None
    /\ out = ""
    /\ fh = NoHandle

NextExpr ==
    \/ MainNewParser
    \/ ParseProgramStep
    \/ MainBootstrap
    \/ EvalStatementStep
    \/ EvalExpressionStep
    \/ ReturnStatementStep
    \/ ReturnExpressionStep
    \/ MainPrintResult

SpecExpr == InitExpr /\ [][NextExpr]_vars

\* The tree of a token sequence by the rules of precedence, read off the
\* sequence itself: the expression is split at the binary operator outside
\* all parentheses that binds loosest, the rightmost of these (so that equal
\* operators group to the left); with no such operator it is a negation, a
\* parenthesized expression or an operand.
EndsOperand(tok) == tok.k \in {"Integer", "Identifier", "RParen"}
Count(ts, i, k) == Cardinality({j \in 1..(i - 1) : ts[j].k = k})
IsSplit(ts, i) ==
    /\ ts[i].k \in BinaryOps
    /\ i > 1 /\ EndsOperand(ts[i - 1])
    /\ Count(ts, i, "LParen") = Count(ts, i, "RParen")
Splits(ts) == {i \in 1..Len(ts) : IsSplit(ts, i)}
Loosest(ts, S) ==
    CHOOSE i \in S : \A j \in S : \/ Rank(ts[i]) < Rank(ts[j])
                                  \/ Rank(ts[i]) = Rank(ts[j]) /\ i >= j
RECURSIVE TreeOf(_)
SplitAt(ts, i) ==
    Infix(TreeOf(SubSeq(ts, 1, i - 1)), ts[i], TreeOf(SubSeq(ts, i + 1, Len(ts))))
TreeOf(ts) ==
    IF Splits(ts) # {} THEN SplitAt(ts, Loosest(ts, Splits(ts)))
    ELSE CASE ts[1].k = "Minus" -> Prefix(ts[1], TreeOf(Tail(ts)))
           [] ts[1].k = "LParen" -> TreeOf(SubSeq(ts, 2, Len(ts) - 1))
           [] ts[1].k = "Integer" -> IntegerLit(ts[1].i)
           [] ts[1].k = "Identifier" -> Identifier(ts[1].s)

\* the tokens of the source, without the EOF
SourceTokens ==
    SubSeq(TokenStream(lexer.input, 0), 1, Len(TokenStream(lexer.input, 0)) - 1)
\* parse_program has returned
Parsed == pc = "parse" /\ parser.cur_token = EOF

\* C6: the program parsed from an expression over integer literals, the
\* binary operators, unary minus and parentheses is the one expression
\* statement whose tree the rules of precedence give: tighter operators
\* below looser ones, equal ones grouped to the left, unary minus below every
\* binary operator, parentheses overriding; `5 + 3 * 2` is Integer(11),
\* `(5 + 3) * 2` is Integer(16) and `a - b - c` is `(a - b) - c`.
C6_Precedence ==
    /\ Parsed => /\ parser.errors = <<>>
                 /\ program = <<ExpressionStmt(TreeOf(SourceTokens))>>
    /\ (RunOf("5 + 3 * 2") /\ pc \in {"evaluated", "exit0"})
         => result = Integer(11)
    /\ (RunOf("(5 + 3) * 2") /\ pc \in {"evaluated", "exit0"})
         => result = Integer(16)
    /\ (RunOf("a - b - c") /\ Parsed)
         => program = <<ExpressionStmt(
                Infix(Infix(Identifier("a"), Tok("Minus"), Identifier("b")),
                      Tok("Minus"), Identifier("c")))>>

\* `2 - 1 - 2 * 1` is parsed: two equal operators, then a tighter one
C6_MixedOperatorsParsed ==
    /\ RunOf("2 - 1 - 2 * 1")
    /\ Parsed
    /\ program = <<ExpressionStmt(
           Infix(Infix(IntegerLit(2), Tok("Minus"), IntegerLit(1)),
                 Tok("Minus"),
                 Infix(IntegerLit(2), Tok("Asterisk"), IntegerLit(1))))>>


(***************************************************************************)
(* The tokenizer alone: next_token called again and again on one lexer,    *)
(* ExtraCalls times more after it returned EOF.                            *)
(***************************************************************************)
LexAlphabet == {"i", "f", "x", "_", "I", "7", "1", " ", "=", ";"}
RECURSIVE StringsUpTo(_)
StringsUpTo(n) ==
    IF n = 0 THEN {""}
    ELSE StringsUpTo(n - 1)
           \cup {s \o c : s \in StringsUpTo(n - 1), c \in LexAlphabet}
TestSource == "int x = 5; if (x > 10) { return x; }"
LexSources(n) ==
    StringsUpTo(n)
      \cup {TestSource, "int", "return", "if", "else", "while", "Int", "INT",
            "ints", "_int", "int_", "int1", "retur", "returns", "elseif",
            "else if", "While", "while\n1", "\tif\r\n(x==1)=", "a1_b2 == 127",
            "1x", "x1", "0007", "128"}

InitLex ==
    /\ build \in Builds
    /\ pc = "lex"
    /\ \E src \in LexSources(MaxSrcLen) : lexer = LexerNew(src)
    /\ tokens = <<>>
    /\ parser = NoParser
    /\ program = <<>>
    /\ envs = <<>>
    /\ ctl = Idle
    /\ stack = <<>>
    /\ result = None
    /\ out = ""
    /\ fh = NoHandle

\* the calls of next_token that returned EOF
EOFs == Cardinality({i \in 1..Len(tokens) : tokens[i] = EOF})

\* one call of Lexer::next_token; tokens records what the calls returned
LexNextToken ==
    /\ pc = "lex"
    /\ EOFs <= ExtraCalls
    /\ \E r \in {LexerNextToken(lexer)} :
         /\ lexer' = r.lexer
         /\ tokens' = IF r.tok = LexPanic THEN tokens ELSE Append(tokens, r.tok)
         /\ pc' = IF r.tok = LexPanic THEN "panicked" ELSE "lex"
    /\ UNCHANGED <<build, fh, parser, program, envs, ctl, stack, result, out>>

NextLex == LexNextToken

SpecLex == InitLex /\ [][NextLex]_vars

\* The tokens of a text by the rules of the language, read off the text: a
\* token starts at the first character that is not whitespace; an
\* identifier or an integer is the longest run of its characters from
\* there; `=` with `=` after it is Equal.
IdentChars == Lower \cup Upper \cup Digits \cup {"_"}
Reserved == [int |-> "Int", return |-> "Return", if |-> "If", else |-> "Else",
             while |-> "While"]
RunEnd(inp, s, S) ==
    CHOOSE q \in s..Len(inp) :
      /\ \A j \in s..q : inp[j] \in S
      /\ q = Len(inp) \/ inp[q + 1] \notin S
TokenStart(inp, p) ==
    IF \A j \in p..Len(inp) : inp[j] \in Whitespace THEN Len(inp) + 1
    ELSE CHOOSE s \in p..Len(inp) :
           /\ inp[s] \notin Whitespace
           /\ \A j \in p..(s - 1) : inp[j] \in Whitespace
RECURSIVE Text(_, _, _)
Text(inp, a, b) == IF a > b THEN "" ELSE inp[a] \o Text(inp, a + 1, b)
RECURSIVE Decimal(_, _, _)
Decimal(inp, a, b) ==
    IF a > b THEN 0 ELSE 10 * Decimal(inp, a, b - 1) + DigitVal(inp[b])
Word(text) ==
    IF text \in DOMAIN Reserved THEN Tok(Reserved[text])
    ELSE TokS("Identifier", text)
\* the token that starts at character s, and where the next one is looked for
RuleToken(inp, s) ==
    CASE inp[s] \in IdentChars \ Digits ->
           [tok |-> Word(Text(inp, s, RunEnd(inp, s, IdentChars))),
            next |-> RunEnd(inp, s, IdentChars) + 1]
      [] inp[s] \in Digits ->
           [tok |-> TokInteger(Decimal(inp, s, RunEnd(inp, s, Digits))),
            next |-> RunEnd(inp, s, Digits) + 1]
      [] inp[s] = "=" ->
           IF s < Len(inp) /\ inp[s + 1] = "="
           THEN [tok |-> Tok("Equal"), next |-> s + 2]
           ELSE [tok |-> Tok("Assign"), next |-> s + 1]
      [] OTHER -> [tok |-> Punct(inp[s]), next |-> s + 1]
RECURSIVE RuleTokens(_, _)
RuleTokensAt(inp, s) ==
    IF s > Len(inp) THEN <<EOF>>
    ELSE <<RuleToken(inp, s).tok>> \o RuleTokens(inp, RuleToken(inp, s).next)
RuleTokens(inp, p) == RuleTokensAt(inp, TokenStart(inp, p))

\* what the calls of next_token returned so far is what the rules give, and
\* EOF after that
TokensByTheRules ==
    \A i \in 1..Len(tokens) :
      tokens[i] = IF i <= Len(RuleTokens(lexer.input, 1))
                  THEN RuleTokens(lexer.input, 1)[i]
                  ELSE EOF

\* C7: for every input every call of next_token returns the token the rules
\* give (whitespace skipped, identifiers and integers maximal runs, keywords
\* only when spelled exactly, `==` Equal and `=` Assign, EOF at the end); the
\* test source yields exactly the 17 tokens of tests::test_next_token.
C7_Tokenization ==
    /\ pc # "panicked"
    /\ TokensByTheRules
    /\ (RunOf(TestSource) /\ Len(tokens) >= 17) =>
         SubSeq(tokens, 1, 17) =
           <<Tok("Int"), TokS("Identifier", "x"), Tok("Assign"), TokInteger(5),
             Tok("Semicolon"), Tok("If"), Tok("LParen"), TokS("Identifier", "x"),
             Tok("GreaterThan"), TokInteger(10), Tok("RParen"), Tok("LBrace"),
             Tok("Return"), TokS("Identifier", "x"), Tok("Semicolon"),
             Tok("RBrace"), EOF>>


AddSource == "int add(int a, int b) { return a + b; } add(2, 3)"
\* the last position of the name of parameter i in params
LastOf(params, i) ==
    CHOOSE j \in i..Len(params) :
      /\ params[j] = params[i]
      /\ \A k \in (j + 1)..Len(params) : params[k] # params[i]

\* C8: a call of a Function with as many arguments as parameters creates a
\* scope whose own bindings are exactly the parameters, the i-th bound to the
\* i-th argument value (bound in order: of a repeated name the last stays),
\* and starts the body in it; what the body returns is unwrapped when it is
\* a ReturnValue and returned as it is otherwise; a block returns the value
\* of its last statement, and the empty block Null; add(2, 3) is Integer(5)
\* and the call of a function with an empty body Null.
C8_CallBindsAndReturns ==
    /\ [][/\ CallsFunction =>
               /\ ctl' = Stmt(Callee.body, NewEnv)
               /\ DOMAIN envs'[NewEnv].store =
                     {Callee.params[i] : i \in 1..Len(Callee.params)}
               /\ \A i \in 1..Len(Callee.params) :
                    envs'[NewEnv].store[Callee.params[i]] =
                      Arguments[LastOf(Callee.params, i)]
          /\ ReturningTo("CallBody") =>
               /\ envs' = envs
               /\ stack' = SubSeq(stack, 1, Len(stack) - 1)
               /\ ctl' = IF ctl.val.t = "ReturnValue" THEN Ret(ctl.val.val)
                         ELSE Ret(ctl.val)
          /\ (ReturningTo("Block") /\ Top(Machine).rest = <<>>) =>
               ctl' = Ret(ctl.val)
          /\ (pc = "eval" /\ ctl.m = "stmt" /\ ctl.node = Block(<<>>)) =>
               ctl' = Ret(Null)]_vars
    /\ []((RunOf(AddSource) /\ pc \in {"evaluated", "exit0"})
            => result = Integer(5))
    /\ []((RunOf("int f() { } f()") /\ pc \in {"evaluated", "exit0"})
            => result = Null)

\* add(2, 3) has returned 5 from the scope in which a is 2 and b is 3
C8_AddCalled ==
    /\ RunOf(AddSource)
    /\ Yields(Integer(5))
    /\ envs[Len(envs)].store = [n \in {"a", "b"} |->
                                  IF n = "a" THEN Integer(2) ELSE Integer(3)]


\* the step about to be taken is Environment::set(SetName, SetValue) on
\* SetEnv: by a declaration `int name = value` or by a function declaration
SetsByLet == ReturningTo("Let") /\ ~is_error(ctl.val)
SetsByFunction == pc = "eval" /\ ctl.m = "stmt" /\ ctl.node.k = "Function"
SetEnv == IF SetsByLet THEN Top(Machine).env ELSE ctl.env
SetName == IF SetsByLet THEN Top(Machine).name ELSE ctl.node.name
SetValue ==
    IF SetsByLet THEN ctl.val
    ELSE FunctionObj(ctl.node.params, ctl.node.body, ctl.env)
\* the environments on the outer chain of e
RECURSIVE Outers(_, _)
Outers(h, e) ==
    IF h[e].outer = NoEnv THEN {} ELSE {h[e].outer} \cup Outers(h, h[e].outer)

\* C9: set(name, value) on an environment changes that environment's own
\* mapping at name and nothing else: no other environment changes, get(name)
\* from it returns the new value and get of every name from every outer
\* environment returns what it returned before; so a declaration in a
\* function body changes no binding of the captured or the global scope.
C9_SetWritesOwnScope ==
    [][(SetsByLet \/ SetsByFunction) =>
         /\ Len(envs') = Len(envs)
         /\ \A e \in 1..Len(envs) : e # SetEnv => envs'[e] = envs[e]
         /\ envs'[SetEnv].outer = envs[SetEnv].outer
         /\ DOMAIN envs'[SetEnv].store = DOMAIN envs[SetEnv].store \cup {SetName}
         /\ \A n \in DOMAIN envs[SetEnv].store :
              n # SetName => envs'[SetEnv].store[n] = envs[SetEnv].store[n]
         /\ EnvGet(envs', SetEnv, SetName) = [ok |-> TRUE, v |-> SetValue]
         /\ \A o \in Outers(envs, SetEnv) : \A n \in Names :
              EnvGet(envs', o, n) = EnvGet(envs, o, n)]_vars

\* `int x = 2` was executed in the scope of a call of f while the global
\* scope binds x to 1, and f() + x is 3
C9_ShadowedInCall ==
    /\ RunOf("int x = 1; int f() { int x = 2; return x; } f() + x")
    /\ Yields(Integer(3))
    /\ EnvGet(envs, 1, "x") = [ok |-> TRUE, v |-> Integer(1)]
    /\ \E e \in 1..Len(envs) :
         /\ envs[e].outer = 1
         /\ "x" \in DOMAIN envs[e].store
         /\ envs[e].store["x"] = Integer(2)


(***************************************************************************)
(* The parser alone, on token sequences: every sequence of up to MaxWords  *)
(* words, and the programs of ParseBases with one word deleted, replaced   *)
(* or inserted.                                                            *)
(***************************************************************************)
MaxWords == 3
Words == {"if", "else", "while", "int", "return", "x", "f", "1", "(", ")",
          "{", "}", ";", "=", ",", "+"}
RECURSIVE WordsUpTo(_)
WordsUpTo(n) ==
    IF n = 0 THEN {<<>>}
    ELSE WordsUpTo(n - 1)
           \cup {Append(ws, w) : ws \in WordsUpTo(n - 1), w \in Words}
ParseBases == {
    <<"if", "(", "x", ")", "{", "1", ";", "}", "else", "{", "x", "}">>,
    <<"while", "(", "x", ")", "{", "if", "(", "1", ")", "{", "x", "}", "}">>,
    <<"int", "f", "(", "int", "x", ")", "{", "return", "x", ";", "}">>,
    <<"int", "f", "(", ")", "{", "while", "(", "1", ")", "{", "}", "}",
      "f", "(", ")">>,
    <<"if", "(", "x", ")", "1", ";", "else", "x", ";">>,
    <<"if", "(", "x", ")", "{", "}", "else", "if", "(", "1", ")", "{", "}">>,
    <<"while", "(", "x", ")", "x", "=", "x", "+", "1", ";">>
}
OneEdit(ws) ==
    {SubSeq(ws, 1, i - 1) \o SubSeq(ws, i + 1, Len(ws)) : i \in 1..Len(ws)}
      \cup {[ws EXCEPT ![i] = w] : i \in 1..Len(ws), w \in Words}
      \cup {SubSeq(ws, 1, i) \o <<w>> \o SubSeq(ws, i + 1, Len(ws)) :
              i \in 0..Len(ws), w \in Words}
\* the words as a source text
RECURSIVE Spaced(_)
Spaced(ws) ==
    IF ws = <<>> THEN ""
    ELSE IF Len(ws) = 1 THEN ws[1]
    ELSE ws[1] \o " " \o Spaced(Tail(ws))
\* token sequences with unclosed and stray braces, Illegal tokens and
\* missing operands
Malformed == {
    <<"{", "{", "x">>, <<"{", "{", "x", "}">>, <<"x", "}", "}", "1">>,
    <<"{", "x", "}", "}", "{">>, <<"@">>, <<"{", "@", "}">>,
    <<"x", "+", "@", ";", "1">>, <<"1", "+">>, <<"(", "1", "+">>,
    <<"while", "(", "x", ")", "{", "{", "1">>,
    <<"if", "(", "x", ")", "{", "1", ";", "}", "else", "{">>,
    <<"if", "(", "x", ")", "{", "while", "(", "@", ")", "{">>,
    <<"int", "f", "(", "int", "x", ",">>,
    <<"int", "f", "(", "int", "x", ",", "@", ")", "{", "}">>,
    <<"int", "f", "(", "int", "x", ")", "{", "{", "return">>,
    <<"f", "(", "1", ",">>, <<"f", "(", "{", "}", ")">>
}
ParseSources(n) ==
    {Spaced(ws) : ws \in WordsUpTo(n) \cup ParseBases \cup Malformed
                           \cup UNION {OneEdit(b) : b \in ParseBases}}

InitParse ==
    /\ build \in Builds
    /\ pc = "start"
    /\ \E src \in ParseSources(MaxWords) : lexer = LexerNew(src)
    /\ tokens = <<>>
    /\ parser = NoParser
    /\ program = <<>>
    /\ envs = <<>>
    /\ ctl = Idle
    /\ stack = <<>>
    /\ result = None
    /\ out = ""
    /\ fh = NoHandle

NextParse ==
    \/ MainNewParser
    \/ ParseProgramStep
    \/ MainParserErrors

SpecParse == InitParse /\ [][NextParse]_vars

\* every If, While and Function in a statement has Blocks where the AST
\* must have them
RECURSIVE BlocksInPlace(_)
BlocksInPlace(stmt) ==
    CASE stmt.k = "Block" ->
           \A i \in 1..Len(stmt.stmts) : BlocksInPlace(stmt.stmts[i])
      [] stmt.k = "If" ->
           /\ stmt.consequence.k = "Block" /\ BlocksInPlace(stmt.consequence)
           /\ \/ stmt.alternative = None
              \/ stmt.alternative.k = "Block" /\ BlocksInPlace(stmt.alternative)
      [] stmt.k \in {"While", "Function"} ->
           stmt.body.k = "Block" /\ BlocksInPlace(stmt.body)
      [] OTHER -> TRUE

\* C10: in the program the parser has built, from any token sequence, the
\* consequence and the alternative of every If, the body of every While and
\* the body of every Function declaration are Block statements.
C10_BranchesAndBodiesAreBlocks ==
    \A i \in 1..Len(program) : BlocksInPlace(program[i])

\* a program the parser reported errors for, holding an If with an else
\* branch, a While or a Function
C10_ShapesInMalformedProgram ==
    /\ Parsed
    /\ parser.errors # <<>>
    /\ \E i \in 1..Len(program) :
         \/ program[i].k = "If" /\ program[i].alternative # None
         \/ program[i].k \in {"While", "Function"}

\* C11: whenever an iteration of parse_program drops its statement (no node
\* is pushed), parse_statement has appended at least one message to the
\* parser's error list during that iteration.
C11_DroppedStatementRecordsError ==
    [][(ParseProgramStep /\ program' = program /\ ~parser'.panicked)
         => Len(parser'.errors) > Len(parser.errors)]_vars

\* the lines main prints for the messages, the last one last
RECURSIVE Listed(_)
Listed(errors) ==
    IF errors = <<>> THEN ""
    ELSE Listed(SubSeq(errors, 1, Len(errors) - 1))
           \o "\t" \o errors[Len(errors)] \o "\n"

\* the evaluator has not been started
Untouched == envs = <<>> /\ ctl = Idle /\ stack = <<>> /\ result = None

\* C12: when parse_program has returned with a non-empty error list, the
\* driver prints the messages in the order they were produced and exits
\* with code 1, with no global environment created and nothing evaluated;
\* the evaluator starts only when the error list is empty.
C12_ParseErrorsGateEvaluation ==
    [][/\ (Parsed /\ parser.errors # <<>>)
            => /\ out' = out \o "Parser errors:\n" \o Listed(parser.errors)
               /\ pc' = "exit1"
               /\ Untouched'
       /\ (Untouched /\ ~Untouched') => (Parsed /\ parser.errors = <<>>)]_vars

\* the driver has exited with code 1 after printing two messages or more
C12_ExitedOnSeveralErrors ==
    /\ pc = "exit1"
    /\ Len(parser.errors) > 1
    /\ Untouched

\* C13: once a call of next_token has returned EOF, every later call on the
\* same lexer returns EOF.
C13_EOFIsAbsorbing ==
    \A i \in 1..Len(tokens) : \A j \in i..Len(tokens) :
      tokens[i] = EOF => tokens[j] = EOF

\* next_token called twice more after the EOF of a text with tokens in it
C13_CalledAgainAfterEOF ==
    /\ pc = "lex"
    /\ Len(tokens) > EOFs
    /\ EOFs > ExtraCalls

\* the same value, whatever environment a Function captured
SameValue(a, b) ==
    IF a.t = "Function" /\ b.t = "Function"
    THEN a.params = b.params /\ a.body = b.body
    ELSE a = b

\* the same names bound to the same values
SameBindings(s, t) ==
    /\ DOMAIN s = DOMAIN t
    /\ \A n \in DOMAIN s : SameValue(s[n], t[n])

NoSignal(val) == val.t # "ReturnValue"

\* the calls that wait for the value of an expression
ExpressionCallers == {"Return", "Let", "If", "WhileCond", "CallFunction",
                      "CallArgs", "Prefix", "InfixLeft", "InfixRight"}
\* the calls of eval_expression that return once their nested call has
ExpressionFrames == {"CallFunction", "CallArgs", "CallBody", "Prefix",
                     "InfixLeft", "InfixRight"}

\* no ReturnValue among the bindings, the callees and arguments of the calls
\* under way, the operands held, the value returned to a call waiting for
\* an expression, and the result of eval_program
NoSignalInSight ==
    /\ \A e \in 1..Len(envs) : \A n \in DOMAIN envs[e].store :
         NoSignal(envs[e].store[n])
    /\ \A i \in 1..Len(stack) :
         /\ stack[i].f = "CallArgs"
              => /\ NoSignal(stack[i].func)
                 /\ \A j \in 1..Len(stack[i].args) : NoSignal(stack[i].args[j])
         /\ stack[i].f = "InfixRight" => NoSignal(stack[i].left)
    /\ (ctl.m = "ret" /\ stack # <<>> /\ Top(Machine).f \in ExpressionCallers)
         => NoSignal(ctl.val)
    /\ result # None => NoSignal(result)

\* a step in which a call of eval_expression returns
ExpressionReturns ==
    /\ ctl'.m = "ret"
    /\ \/ ctl.m = "expr"
       \/ ctl.m = "ret" /\ Top(Machine).f \in ExpressionFrames

\* C15: no expression evaluates to a ReturnValue, no environment binds one,
\* no function or builtin is passed one, and eval_program does not return
\* one: a ReturnValue is the result of a statement only.
C15_ReturnSignalNeverVisible ==
    [][/\ NoSignalInSight'
       /\ ExpressionReturns => NoSignal(ctl'.val)]_vars

\* the body of a call has returned a ReturnValue, and the call's value is
\* what a Let statement will bind
C15_SignalReachesCall ==
    /\ ReturningTo("CallBody")
    /\ ctl.val.t = "ReturnValue"
    /\ Len(stack) > 1
    /\ stack[Len(stack) - 1].f = "Let"

ReturnInLoop ==
    "int f(int n) { int i = 0; while (1) { if (i == n) { return i; } int i = i + 1; } } f(2)"

\* the call on top of the stack returns val to the call below it
Returns(val) ==
    /\ ctl' = Ret(val)
    /\ stack' = SubSeq(stack, 1, Len(stack) - 1)
    /\ envs' = envs

\* the While statement on top of the stack goes on with call c, waiting for
\* it in frame f
LoopGoesOn(f, c) ==
    /\ ctl' = c
    /\ Len(stack') = Len(stack)
    /\ Top(Machine') = [Top(Machine) EXCEPT !.f = f]
    /\ envs' = envs

\* C16: a While statement evaluates its condition first and again after
\* every iteration; it returns Null when the condition is falsy, the Error
\* of the condition at once, and the Error or ReturnValue of the body at
\* once without evaluating the condition again; a `return v` in a loop in
\* a function body makes the call return v.
C16_WhileProtocol ==
    [][/\ (pc = "eval" /\ ctl.m = "stmt" /\ ctl.node.k = "While"
             /\ Len(stack) < MaxStack)
            => /\ ctl' = Expr(ctl.node.condition, ctl.env)
               /\ Top(Machine') = [f |-> "WhileCond", body |-> ctl.node.body,
                                   condition |-> ctl.node.condition,
                                   env |-> ctl.env]
               /\ SubSeq(stack', 1, Len(stack)) = stack
       /\ ReturningTo("WhileCond")
            => IF ctl.val.t = "Error" THEN Returns(ctl.val)
               ELSE IF ~is_truthy(ctl.val) THEN Returns(Null)
               ELSE LoopGoesOn("WhileBody",
                               Stmt(Top(Machine).body, Top(Machine).env))
       /\ ReturningTo("WhileBody")
            => IF ctl.val.t \in {"Error", "ReturnValue"} THEN Returns(ctl.val)
               ELSE LoopGoesOn("WhileCond",
                               Expr(Top(Machine).condition, Top(Machine).env))
       /\ (ReturningTo("CallBody") /\ ctl.val.t = "ReturnValue")
            => Returns(ctl.val.val)
       /\ (RunOf(ReturnInLoop) /\ pc' = "evaluated")
            => result' = Integer(2)]_vars

\* `return i` in the loop of f has ended the loop, and f(2) has returned 2
C16_ReturnedFromLoop ==
    /\ RunOf(ReturnInLoop)
    /\ Yields(Integer(2))

NotFound(name) == Error("identifier not found: " \o name)
TooManyArguments == "int f(int a) { return a; } f(1, nope, 3)"
CalledInteger == "int x = 1; x(2, nope, 3)"

\* C17: a Call evaluates the function position first and then the arguments
\* from left to right; the first Error among them is the value of the call
\* and nothing after it is evaluated, so an Error of an argument comes
\* before "wrong number of arguments" and "not a function".
C17_CallEvaluationOrder ==
    [][/\ (pc = "eval" /\ ctl.m = "expr" /\ ctl.node.k = "Call"
             /\ Len(stack) < MaxStack)
            => /\ ctl' = Expr(ctl.node.function, ctl.env)
               /\ Top(Machine') = [f |-> "CallFunction", env |-> ctl.env,
                                   arguments |-> ctl.node.arguments]
               /\ SubSeq(stack', 1, Len(stack)) = stack
       /\ ReturningTo("CallFunction")
            => IF ctl.val.t = "Error" THEN Returns(ctl.val)
               ELSE Top(Machine).arguments # <<>>
                      => /\ ctl' = Expr(Head(Top(Machine).arguments),
                                        Top(Machine).env)
                         /\ Len(stack') = Len(stack)
                         /\ Top(Machine') =
                              [f |-> "CallArgs", func |-> ctl.val,
                               args |-> <<>>, env |-> Top(Machine).env,
                               rest |-> Tail(Top(Machine).arguments)]
                         /\ envs' = envs
       /\ ReturningTo("CallArgs")
            => IF ctl.val.t = "Error" THEN Returns(ctl.val)
               ELSE Top(Machine).rest # <<>>
                      => /\ ctl' = Expr(Head(Top(Machine).rest),
                                        Top(Machine).env)
                         /\ Len(stack') = Len(stack)
                         /\ Top(Machine') =
                              [Top(Machine) EXCEPT
                                 !.args = Append(@, ctl.val),
                                 !.rest = Tail(@)]
                         /\ envs' = envs
       /\ (RunOf(TooManyArguments) \/ RunOf(CalledInteger))
            => (pc' = "evaluated" => result' = NotFound("nope"))]_vars

\* a call with too many arguments, the second of them undefined, has
\* ended with the Error of that argument
C17_ArgumentErrorFirst ==
    /\ RunOf(TooManyArguments)
    /\ Yields(NotFound("nope"))

\* truthiness as the language defines it
Truthy(val) ==
    CASE val.t = "Null" -> FALSE
      [] val.t = "Boolean" -> val.b
      [] val.t = "Integer" -> val.i # 0
      [] val.t \in {"String", "Function", "Builtin", "File"} -> TRUE

\* the statement on top of the stack ends by evaluating stmt in its place
GoesOnWith(stmt) ==
    /\ ctl' = Stmt(stmt, Top(Machine).env)
    /\ stack' = SubSeq(stack, 1, Len(stack) - 1)
    /\ envs' = envs

\* C18: an If evaluates its condition; an Error condition is the result of
\* the If and neither branch is evaluated; a truthy condition (anything but
\* Null, Boolean false and Integer zero) evaluates the consequence only, a
\* falsy one the alternative only, or yields Null when there is none.
C18_TruthinessAndBranches ==
    [][/\ (pc = "eval" /\ ctl.m = "stmt" /\ ctl.node.k = "If"
             /\ Len(stack) < MaxStack)
            => /\ ctl' = Expr(ctl.node.condition, ctl.env)
               /\ Top(Machine') = [f |-> "If", env |-> ctl.env,
                                   consequence |-> ctl.node.consequence,
                                   alternative |-> ctl.node.alternative]
               /\ SubSeq(stack', 1, Len(stack)) = stack
       /\ ReturningTo("If")
            => IF ctl.val.t = "Error" THEN Returns(ctl.val)
               ELSE IF Truthy(ctl.val) THEN GoesOnWith(Top(Machine).consequence)
               ELSE IF Top(Machine).alternative # None
               THEN GoesOnWith(Top(Machine).alternative)
               ELSE Returns(Null)]_vars

\* the condition of an If has evaluated to a File
C18_FileCondition ==
    /\ ReturningTo("If")
    /\ ctl.val.t = "File"

\* whether two values of the same kind are equal in the language
EqualInLanguage(l, r) ==
    CASE l.t \in {"Builtin", "File"} -> FALSE
      [] l.t = "Function" -> l.params = r.params /\ l.body = r.body
      [] l.t \in {"Integer", "String", "Boolean", "Null"} -> l = r

\* C19: `==` and `!=` on two values of the same kind: a Builtin or a File
\* is equal to nothing, itself included; Integers, Strings, Booleans and
\* Null compare by value; Functions compare by parameter list and body,
\* whatever environment they captured.
C19_ValueEquality ==
    [][(/\ ReturningTo("InfixRight")
        /\ Top(Machine).operator.k \in {"Equal", "NotEqual"}
        /\ ctl.val.t # "Error"
        /\ ctl.val.t = Top(Machine).left.t)
         => Returns(Boolean(EqualInLanguage(Top(Machine).left, ctl.val)
                              <=> Top(Machine).operator.k = "Equal"))]_vars

\* a File is being compared with itself by `==`
C19_FileComparedWithItself ==
    /\ ReturningTo("InfixRight")
    /\ Top(Machine).operator.k = "Equal"
    /\ ctl.val.t = "File"
    /\ Top(Machine).left = ctl.val

(***************************************************************************)
(* eval_infix_expression alone: every binary operator of the parser on     *)
(* every pair of the values of InfixValues, as the right operand returns   *)
(* to the Infix expression that is the program's only statement.           *)
(***************************************************************************)
InfixValues ==
    {Integer(i) : i \in {MinInt, -1, 0, 1, 2, MaxInt}}
      \cup {String(""), String("a"), Boolean(TRUE), Boolean(FALSE), Null,
            Builtin("puts"), Builtin("fopen"), File("a"),
            FunctionObj(<<>>, Block(<<>>), 1),
            FunctionObj(<<"a">>, Block(<<>>), 1)}

InitInfix ==
    /\ build \in Builds
    /\ pc = "eval"
    /\ lexer = LexerNew("")
    /\ tokens = <<>>
    /\ parser = NoParser
    /\ program = <<>>
    /\ envs = <<Bootstrap>>
    /\ \E op \in BinaryOps, left \in InfixValues :
         stack = <<[f |-> "Program", rest |-> <<>>, env |-> 1],
                   [f |-> "InfixRight", operator |-> Tok(op), left |-> left]>>
    /\ \E right \in InfixValues : ctl = Ret(right)
    /\ result = None
    /\ out = ""
    /\ fh = NoHandle

NextInfix ==
    \/ ReturnExpressionStep
    \/ ReturnStatementStep
    \/ MainPrintResult

SpecInfix == InitInfix /\ [][NextInfix]_vars

\* the kind of Object the claim gives for operator op on left and right
KindByDispatch(op, left, right) ==
    CASE left.t = "Integer" /\ right.t = "Integer" ->
           IF op \in {"Plus", "Minus", "Asterisk", "Slash"} THEN "Integer"
           ELSE "Boolean"
      [] OTHER -> IF op \in {"Equal", "NotEqual"} THEN "Boolean" ELSE "Error"

\* the Error of a pair of operands that are not two Integers
ErrorByDispatch(val, left, right) ==
    val.t = "Error"
      => IF left.t = "Boolean" /\ right.t = "Boolean"
         THEN SubSeq(val.msg, 1, 26) = "unknown operator: BOOLEAN "
         ELSE SubSeq(val.msg, 1, 15) = "type mismatch: "

\* an application of eval_infix_expression returns an Object of the kind
\* the dispatch gives
InfixReturns ==
    /\ ctl'.m = "ret"
    /\ ctl'.val.t = KindByDispatch(Top(Machine).operator.k,
                                   Top(Machine).left, ctl.val)
    /\ ErrorByDispatch(ctl'.val, Top(Machine).left, ctl.val)

\* C20: for every operator and every pair of operands that are not Errors,
\* eval_infix_expression returns a value: an Integer for `+ - * /` and a
\* Boolean for `< > == !=` on two Integers; a Boolean for `==` and `!=` on
\* two Booleans and an Error for every other operator; on every other pair
\* a Boolean for `==` and `!=` and the Error "type mismatch: ..." for
\* every other operator.
C20_InfixDispatchTotal ==
    [][ReturningTo("InfixRight") => InfixReturns]_vars

\* the same with the panics of Integer arithmetic left aside
InfixDispatchUnlessPanic ==
    [][ReturningTo("InfixRight") =>
         \/ InfixReturns
         \/ /\ ctl'.m = "panic"
            /\ Top(Machine).left.t = "Integer"
            /\ ctl.val.t = "Integer"
            /\ Top(Machine).operator.k \in {"Plus", "Minus", "Asterisk", "Slash"}]_vars

DeclaredInside ==
    "int a = 1; if (a) { int a = 5; int b = 6; } { int c = a + b; } while (c) { int d = c; int c = 0; } a + b + c + d"
Factorial ==
    "int fact(int n) { if (n < 2) { return 1; } return n * fact(n - 1); } fact(4)"

\* the environment of the statement or expression evaluated next
SameScope(env) == ctl'.m \in {"stmt", "expr"} => ctl'.env = env

SumTo == "int f(int n) { if (n < 1) { return 0; } int r = f(n - 1); return r + n; } f(3)"

\* an evaluation in environment e waits for a call to return
Suspended(e) ==
    \E i \in 1..Len(stack) : \E j \in (i + 1)..Len(stack) :
      /\ "env" \in DOMAIN stack[i]
      /\ stack[i].env = e
      /\ stack[j].f = "CallBody"

\* C22: a call of a user function runs in an environment created for it,
\* and while a call is under way no binding changes in the environment of
\* any evaluation that waits for it, an outer invocation of the same
\* function included; so the outer invocation reads, after the call, the
\* parameters and locals it had before.
C22_InvocationsDoNotInterfere ==
    [][/\ CallsFunction
            => /\ SubSeq(envs', 1, Len(envs)) = envs
               /\ ctl'.env = Len(envs) + 1
               /\ \A i \in 1..Len(stack') :
                    "env" \in DOMAIN stack'[i] => stack'[i].env <= Len(envs)
       /\ pc = "eval"
            => \A e \in 1..Len(envs) : Suspended(e) => envs'[e] = envs[e]
       /\ (RunOf(SumTo) /\ pc' = "evaluated") => result' = Integer(6)]_vars

\* f(3) has returned 3 + 2 + 1 + 0: each invocation read its own n after
\* the invocation it made had returned
C22_RecursionReturned ==
    /\ RunOf(SumTo)
    /\ Yields(Integer(6))
    /\ Len(envs) = 5
    /\ \A e \in 2..5 : envs[e].store["n"] = Integer(5 - e)

(***************************************************************************)
(* The tokenizer on texts with comments: every text of up to MaxCommentLen *)
(* characters over CommentAlphabet, and CommentedSource.                   *)
(***************************************************************************)
MaxCommentLen == 5
CommentAlphabet == {"/", "\n", "x", "1", "=", "\"", "\\"}
RECURSIVE CommentStrings(_)
CommentStrings(n) ==
    IF n = 0 THEN {""}
    ELSE CommentStrings(n - 1)
           \cup {s \o c : s \in CommentStrings(n - 1), c \in CommentAlphabet}
CommentedSource ==
    "x = 1; // set x\nx / 2 // half\n\"a // b\" /// c"
CommentSources(n) == CommentStrings(n) \cup {CommentedSource, "x/1", "1 / /x"}

InitComment ==
    /\ build \in Builds
    /\ pc = "lex"
    /\ \E src \in CommentSources(MaxCommentLen) : lexer = LexerNew(src)
    /\ tokens = <<>>
    /\ parser = NoParser
    /\ program = <<>>
    /\ envs = <<>>
    /\ ctl = Idle
    /\ stack = <<>>
    /\ result = None
    /\ out = ""
    /\ fh = NoHandle

NextComment == LexNextToken

SpecComment == InitComment /\ [][NextComment]_vars

\* the index of the first newline of inp from i on, or past the end
RECURSIVE LineEnd(_, _)
LineEnd(inp, i) ==
    IF i > Len(inp) \/ inp[i] = "\n" THEN i ELSE LineEnd(inp, i + 1)

\* the characters of inp from i on without the comments: outside a string
\* literal, `//` and what follows it up to the next newline is left out
RECURSIVE Uncommented(_, _, _)
Uncommented(inp, i, inString) ==
    IF i > Len(inp) THEN <<>>
    ELSE IF inString
    THEN IF inp[i] = "\\" /\ i < Len(inp)
              /\ inp[i + 1] \in {"n", "r", "t", "\"", "\\"}
         THEN <<inp[i], inp[i + 1]>> \o Uncommented(inp, i + 2, TRUE)
         ELSE <<inp[i]>> \o Uncommented(inp, i + 1, inp[i] # "\"")
    ELSE IF inp[i] = "/" /\ i < Len(inp) /\ inp[i + 1] = "/"
    THEN Uncommented(inp, LineEnd(inp, i), FALSE)
    ELSE <<inp[i]>> \o Uncommented(inp, i + 1, inp[i] = "\"")

\* the `/` characters of inp from i on that are outside string literals
RECURSIVE CodeSlashes(_, _, _)
CodeSlashes(inp, i, inString) ==
    IF i > Len(inp) THEN 0
    ELSE IF inString
    THEN IF inp[i] = "\\" /\ i < Len(inp)
              /\ inp[i + 1] \in {"n", "r", "t", "\"", "\\"}
         THEN CodeSlashes(inp, i + 2, TRUE)
         ELSE CodeSlashes(inp, i + 1, inp[i] # "\"")
    ELSE (IF inp[i] = "/" THEN 1 ELSE 0)
           + CodeSlashes(inp, i + 1, inp[i] = "\"")

SlashTokens(ts) == Cardinality({i \in 1..Len(ts) : ts[i] = Tok("Slash")})

\* C23: the tokens next_token returns for a text are those of the text with
\* every `//` comment (outside a string literal, up to the next newline or
\* the end) left out; and each `/` that is not part of a comment or a string
\* literal is a Slash token.
C23_CommentsAreTransparent ==
    /\ \A i \in 1..Len(tokens) :
         tokens[i] =
           IF i <= Len(TokenStream(Uncommented(lexer.input, 1, FALSE), 0))
           THEN TokenStream(Uncommented(lexer.input, 1, FALSE), 0)[i]
           ELSE EOF
    /\ pc = "panicked"
         => TokenStream(Uncommented(lexer.input, 1, FALSE), 0)[Len(tokens) + 1]
              = LexPanic
    /\ (EOFs > 0 /\ pc = "lex")
         => SlashTokens(tokens)
              = CodeSlashes(Uncommented(lexer.input, 1, FALSE), 1, FALSE)

\* a text with comments to the end of a line and of the input, a division
\* and a string literal with `//` in it has been tokenized to its end
C23_CommentedSourceTokenized ==
    /\ RunOf(CommentedSource)
    /\ tokens = <<TokS("Identifier", "x"), Tok("Assign"), TokInteger(1),
                  Tok("Semicolon"), TokS("Identifier", "x"), Tok("Slash"),
                  TokInteger(2), TokS("String", "a // b"), EOF>>

BoundLater ==
    "int f() { return x; } int x = 1; int a = f(); int x = 2; a * 10 + f()"
MutualRecursion ==
    "int ev(int n) { if (n) { return od(n - 1); } 1 } int od(int n) { if (n) { return ev(n - 1); } 0 } ev(3)"

\* C24: a Function value refers to the environment it was declared in, not
\* to a copy of it: the declaration binds the function's name in the very
\* environment the value captured, and a call resolves every name that is
\* not a parameter to the binding that environment has at the time of the
\* call, so bindings added or overwritten after the declaration are seen,
\* the function's own name and those of functions declared later included.
C24_CapturedBySharedReference ==
    [][/\ (pc = "eval" /\ ctl.m = "stmt" /\ ctl.node.k = "Function")
            => /\ Len(envs') = Len(envs)
               /\ ctl'.val.env = ctl.env
               /\ envs'[ctl'.val.env].store[ctl.node.name] = ctl'.val
       /\ CallsFunction
            => /\ envs'[NewEnv].outer = Callee.env
               /\ envs'[Callee.env] = envs[Callee.env]
               /\ \A n \in DOMAIN envs[Callee.env].store :
                    (\A i \in 1..Len(Callee.params) : Callee.params[i] # n)
                      => EnvGet(envs', NewEnv, n)
                           = [ok |-> TRUE, v |-> envs[Callee.env].store[n]]
       /\ (RunOf(BoundLater) /\ pc' = "evaluated") => result' = Integer(12)
       /\ (RunOf(MutualRecursion) /\ pc' = "evaluated")
            => result' = Integer(0)]_vars

\* f, declared before x, has returned the 1 bound to x after the
\* declaration and then the 2 that overwrote it
C24_SeesLaterBindings ==
    /\ RunOf(BoundLater)
    /\ Yields(Integer(12))


(***************************************************************************)
(* The file builtins applied, in any order, to one FileHandle: the handle  *)
(* fopen returned for a file of the host.                                  *)
(***************************************************************************)
MaxFileLen == 2

\* the File argument of the calls: the handle is fh
FileArg == File("a")
\* the bytes of the files File::open finds
ReadableFiles == {<<>>, <<97>>, <<10, 97>>}
\* stdlib.rs:127-140: the FileHandle of fopen(path, "r") and fopen(path, "w")
OpenedHandles ==
    {FileHandle([mode |-> "r", bytes |-> b, pos |-> 0]) : b \in ReadableFiles}
      \cup {FileHandle([mode |-> "w", bytes |-> <<>>, pos |-> 0])}
\* how many reads of fgets, or bytes of a write, the host lets succeed, and
\* whether it lets the one system call of another builtin succeed
Lucks == 0..(MaxFileLen + 1)
Luck == {0, 1}
OneFileArgs == {<<FileArg>>, <<Null>>}
PutArgs ==
    {<<String(s), FileArg>> : s \in {"", "a", "a1"}}
      \cup {<<Integer(1), FileArg>>, <<String("a"), Null>>}
PrintfArgs ==
    {<<FileArg, String(s)>> : s \in {"", "a"}}
      \cup {<<FileArg, String("%da"), Integer(1)>>, <<FileArg, Integer(1)>>,
            <<FileArg>>}
SeekArgs ==
    {<<FileArg, Integer(offset), Integer(whence)>> :
        offset \in {-1, 0, 1, 2}, whence \in 0..3}
      \cup {<<FileArg, Null, Integer(0)>>}

\* the file of the handle a builtin leaves stays within the bounds
Fits(r) ==
    Len(r.fh.file.bytes) <= MaxFileLen /\ r.fh.file.pos <= MaxFileLen + 1

\* one action per builtin: the driver calls it on the handle and holds the
\* Object it returned
CallFputs ==
    /\ pc = "file"
    /\ \E args \in PutArgs, luck \in Lucks :
         /\ Fits(fputs(args, fh, luck))
         /\ fh' = fputs(args, fh, luck).fh
         /\ result' = fputs(args, fh, luck).val
    /\ UNCHANGED <<build, pc, lexer, tokens, parser, program, envs, ctl,
                   stack, out>>

CallFputc ==
    /\ pc = "file"
    /\ \E args \in PutArgs, luck \in Luck :
         /\ Fits(fputc(args, fh, luck))
         /\ fh' = fputc(args, fh, luck).fh
         /\ result' = fputc(args, fh, luck).val
    /\ UNCHANGED <<build, pc, lexer, tokens, parser, program, envs, ctl,
                   stack, out>>

CallPutc ==
    /\ pc = "file"
    /\ \E args \in PutArgs, luck \in Luck :
         /\ Fits(putc(args, fh, luck))
         /\ fh' = putc(args, fh, luck).fh
         /\ result' = putc(args, fh, luck).val
    /\ UNCHANGED <<build, pc, lexer, tokens, parser, program, envs, ctl,
                   stack, out>>

CallFprintf ==
    /\ pc = "file"
    /\ \E args \in PrintfArgs, luck \in Lucks :
         /\ Fits(fprintf(args, fh, luck))
         /\ fh' = fprintf(args, fh, luck).fh
         /\ result' = fprintf(args, fh, luck).val
    /\ UNCHANGED <<build, pc, lexer, tokens, parser, program, envs, ctl,
                   stack, out>>

CallFgets ==
    /\ pc = "file"
    /\ \E args \in OneFileArgs, luck \in Lucks :
         /\ Fits(fgets(args, fh, luck))
         /\ fh' = fgets(args, fh, luck).fh
         /\ result' = fgets(args, fh, luck).val
    /\ UNCHANGED <<build, pc, lexer, tokens, parser, program, envs, ctl,
                   stack, out>>

CallFgetc ==
    /\ pc = "file"
    /\ \E args \in OneFileArgs, luck \in Luck :
         /\ Fits(fgetc(args, fh, luck))
         /\ fh' = fgetc(args, fh, luck).fh
         /\ result' = fgetc(args, fh, luck).val
    /\ UNCHANGED <<build, pc, lexer, tokens, parser, program, envs, ctl,
                   stack, out>>

CallGetc ==
    /\ pc = "file"
    /\ \E args \in OneFileArgs, luck \in Luck :
         /\ Fits(getc(args, fh, luck))
         /\ fh' = getc(args, fh, luck).fh
         /\ result' = getc(args, fh, luck).val
    /\ UNCHANGED <<build, pc, lexer, tokens, parser, program, envs, ctl,
                   stack, out>>

CallFeof ==
    /\ pc = "file"
    /\ \E args \in OneFileArgs :
         /\ Fits(feof(args, fh))
         /\ fh' = feof(args, fh).fh
         /\ result' = feof(args, fh).val
    /\ UNCHANGED <<build, pc, lexer, tokens, parser, program, envs, ctl,
                   stack, out>>

CallFerror ==
    /\ pc = "file"
    /\ \E args \in OneFileArgs :
         /\ Fits(ferror(args, fh))
         /\ fh' = ferror(args, fh).fh
         /\ result' = ferror(args, fh).val
    /\ UNCHANGED <<build, pc, lexer, tokens, parser, program, envs, ctl,
                   stack, out>>

CallFtell ==
    /\ pc = "file"
    /\ \E args \in OneFileArgs, luck \in Luck :
         /\ Fits(ftell(args, fh, luck))
         /\ fh' = ftell(args, fh, luck).fh
         /\ result' = ftell(args, fh, luck).val
    /\ UNCHANGED <<build, pc, lexer, tokens, parser, program, envs, ctl,
                   stack, out>>

CallFseek ==
    /\ pc = "file"
    /\ \E args \in SeekArgs, luck \in Luck :
         /\ Fits(fseek(args, fh, luck))
         /\ fh' = fseek(args, fh, luck).fh
         /\ result' = fseek(args, fh, luck).val
    /\ UNCHANGED <<build, pc, lexer, tokens, parser, program, envs, ctl,
                   stack, out>>

CallRewind ==
    /\ pc = "file"
    /\ \E args \in OneFileArgs, luck \in Luck :
         /\ Fits(rewind(args, fh, luck))
         /\ fh' = rewind(args, fh, luck).fh
         /\ result' = rewind(args, fh, luck).val
    /\ UNCHANGED <<build, pc, lexer, tokens, parser, program, envs, ctl,
                   stack, out>>

InitFile ==
    /\ build \in Builds
    /\ pc = "file"
    /\ lexer = LexerNew("")
    /\ tokens = <<>>
    /\ parser = NoParser
    /\ program = <<>>
    /\ envs = <<>>
    /\ ctl = Idle
    /\ stack = <<>>
    /\ result = None
    /\ out = ""
    /\ fh \in OpenedHandles

NextFile ==
    \/ CallFputs
    \/ CallFputc
    \/ CallPutc
    \/ CallFprintf
    \/ CallFgets
    \/ CallFgetc
    \/ CallGetc
    \/ CallFeof
    \/ CallFerror
    \/ CallFtell
    \/ CallFseek
    \/ CallRewind

SpecFile == InitFile /\ [][NextFile]_vars

ReadCall == CallFgets \/ CallFgetc \/ CallGetc
WriteCall == CallFputs \/ CallFputc \/ CallPutc \/ CallFprintf
\* the descriptor of h stands at or after the last byte of a file it may read
AtEndOfFile(h) == h.file.mode = "r" /\ h.file.pos >= Len(h.file.bytes)
\* val is what a builtin of the kind returns when its system call failed
ReadFailed(val) ==
    val = Null \/ (val.t = "Error" /\ SubSeq(val.msg, 1, 12) = "fgets error:")
WriteFailed(val) ==
    val.t = "Error"
      /\ \/ val.msg = "write error"
         \/ \E name \in {"fputs", "fputc", "putc"} :
              SubSeq(val.msg, 1, Len(name) + 8) = name \o " failed:"

\* C25: over the calls of fgets, fgetc, getc, fputs, fputc, putc, fprintf,
\* fseek and rewind (and feof, ferror, ftell) on one handle: eof becomes
\* true only in a read that found no byte left, and false only in an fseek
\* that returned Integer(0) or in rewind; error becomes true only in a read,
\* write or seek that failed, and false only in rewind; right after rewind
\* feof and ferror both report false; fseek returns Integer(0) with eof
\* cleared and error untouched, or Integer(-1) with error set.
C25_FileFlagMachine ==
    [][/\ (~fh.eof /\ fh'.eof) =>
            /\ ReadCall /\ AtEndOfFile(fh')
            /\ result' = Null \/ (CallFgets /\ result'.t = "String")
       /\ (fh.eof /\ ~fh'.eof) =>
            CallRewind \/ (CallFseek /\ result' = Integer(0))
       /\ (~fh.error /\ fh'.error) =>
            \/ ReadCall /\ ReadFailed(result')
            \/ WriteCall /\ WriteFailed(result')
            \/ CallFseek /\ result' = Integer(-1)
       /\ (fh.error /\ ~fh'.error) => CallRewind
       /\ (result' = Null /\ CallRewind) =>
            /\ ~fh'.eof /\ ~fh'.error
            /\ feof(<<FileArg>>, fh').val = Boolean(FALSE)
            /\ ferror(<<FileArg>>, fh').val = Boolean(FALSE)
       /\ (result'.t = "Integer" /\ CallFseek) =>
            \/ result' = Integer(0) /\ ~fh'.eof /\ fh'.error = fh.error
            \/ result' = Integer(-1) /\ fh'.error /\ fh'.eof = fh.eof
                 /\ fh'.file = fh.file
      ]_vars

\* a seek failed on a handle that had read to the end of its file
C25_SeekFailedAtEndOfFile ==
    /\ pc = "file"
    /\ fh.eof /\ fh.error
    /\ fh.file.mode = "r" /\ fh.file.bytes # <<>>
    /\ result = Integer(-1)


\* a maximal run of digits of inp whose value does not fit i64
WideInteger(inp) ==
    \E a \in 1..Len(inp) :
      /\ inp[a] \in Digits
      /\ a = 1 \/ inp[a - 1] \notin Digits
      /\ Decimal(inp, a, RunEnd(inp, a, Digits)) > MaxInt

\* C26: for every source text every call of next_token returns a token and
\* none crashes, a digit run that does not fit i64 included.
C26_TokenizerTotal ==
    [][LexNextToken => pc' = "lex" /\ Len(tokens') = Len(tokens) + 1]_vars

\* next_token crashes on no other text than one with such a digit run
C26_CrashesOnlyOnWideIntegers ==
    pc = "panicked" => WideInteger(lexer.input)


\* The parser runs while it can: Parser::new, the iterations of
\* parse_program and the report of the errors wait for nothing.  The
\* fairness of the two steps that run the parser is written out as
\* []<>(~guard) \/ []<><<step>>_vars.
FairSpecParse ==
    /\ SpecParse
    /\ WF_vars(MainParserErrors)
    /\ ([]<>(pc # "start") \/ []<><<MainNewParser>>_vars)
    /\ ([]<>~(pc = "parse" /\ parser.cur_token # EOF)
          \/ []<><<ParseProgramStep>>_vars)

\* the position of cur_token in the token sequence: the index of the token,
\* the index of EOF from the end of the input on
Position(p) ==
    IF p.cur_token = EOF THEN Len(p.lexer.stream) ELSE p.lexer.taken - 1
\* the parser parse_block_statement finds when it is called on the `{` at
\* index k of the token sequence of p
ParserAt(p, k) ==
    [p EXCEPT !.cur_token = p.lexer.stream[k],
              !.peek_token = p.lexer.stream[k + 1],
              !.lexer = [p.lexer EXCEPT !.taken = k + 1],
              !.errors = <<>>]
\* the iterations of the loop of parse_block_statement from p on (parser.rs:
\* 206-211): each leaves cur_token further on, and the loop ends on `}` or on
\* EOF
RECURSIVE BlockLoopAdvances(_)
BlockLoopAdvances(p) ==
    IF p.cur_token # Tok("RBrace") /\ p.cur_token # EOF
    THEN Val([q \in {ParserNextToken(ParseStatement(p).p)} |->
           Position(q) > Position(p) /\ BlockLoopAdvances(q)])
    ELSE TRUE
\* parse_block_statement from any `{` of the token sequence of p
BlocksAdvance(p) ==
    \A k \in 1..(Len(p.lexer.stream) - 1) :
      p.lexer.stream[k] = Tok("LBrace") =>
        /\ BlockLoopAdvances(ParserNextToken(ParserAt(p, k)))
        /\ ParseBlockStatement(ParserAt(p, k)).p.cur_token
             \in {Tok("RBrace"), EOF}
        /\ Position(ParseBlockStatement(ParserAt(p, k)).p) > k

\* C27: on every token sequence, malformed ones included, parse_program
\* ends with cur_token at EOF; every iteration of its loop and of the loop
\* of parse_block_statement leaves cur_token at least one token further on,
\* and a block ends at its `}` or at the end of the input.
C27_ParserTerminatesWithProgress ==
    /\ [][/\ MainNewParser => BlocksAdvance(parser')
          /\ ParseProgramStep =>
               /\ Position(parser') > Position(parser)
               /\ Position(parser') <= Len(parser.lexer.stream)
               /\ pc' = "parse"]_vars
    /\ <>(pc = "parse" /\ parser.cur_token = EOF)

\* parse_program ended on a token sequence whose blocks are not closed
C27_UnclosedBlocksParsed ==
    /\ RunOf("while ( x ) { { 1")
    /\ pc = "parse" /\ parser.cur_token = EOF
    /\ Len(program) = 1 /\ program[1].k = "While"

=============================================================================
